---- MODULE Spec2Model ----
(***************************************************************************)
(* A model of the JMAP client of src/src/index.ts (class JmapJMAPClient):  *)
(* session discovery, the batch request executor, mailbox name resolution  *)
(* and the two-phase send workflow.                                        *)
(*                                                                         *)
(* Strings are sequences of atoms (an atom is a chunk of characters that   *)
(* no other atom overlaps), so that concatenation is \o and the substring  *)
(* test of String.prototype.includes is a test for a contiguous            *)
(* subsequence.  JS null and undefined are the one-atom string Undefined.  *)
(* An optional object is a sequence of length 0 or 1.                      *)
(*                                                                         *)
(* An async method is a task: one action per network round trip, which     *)
(* takes the response and runs the synchronous code up to the next fetch.  *)
(***************************************************************************)
EXTENDS Integers, Sequences, FiniteSets, TLC

VARIABLES clients, tasks, srvEmails, srvSubs, srvMail, server, handlers

vars == <<clients, tasks, srvEmails, srvSubs, srvMail, server, handlers>>

-----------------------------------------------------------------------------
(* Bounds of the model *)

MaxDrafts == 2
MaxSubs == 1
MaxCache == 3

-----------------------------------------------------------------------------
(* JavaScript values and string functions *)

Undefined == <<"undefined">>

(* an absent list of strings *)
NoList == <<Undefined>>

Truthy(s) == s # Undefined /\ s # <<>>

OrElse(a, b) == IF Truthy(a) THEN a ELSE b

Includes(s, sub) ==
  \E i \in 0..(Len(s) - Len(sub)) : SubSeq(s, i + 1, i + Len(sub)) = sub

LowerAtom(a) ==
  CASE a = "In" -> "in"
    [] a = "IN" -> "in"
    [] a = "Box" -> "box"
    [] a = "BOX" -> "box"
    [] a = "Sent" -> "sent"
    [] a = "Draft" -> "draft"
    [] a = "Trash" -> "trash"
    [] a = "Old" -> "old"
    [] OTHER -> a

ToLowerCase(s) == [i \in 1..Len(s) |-> LowerAtom(s[i])]

RECURSIVE TrimStart(_)
TrimStart(s) == IF s # <<>> /\ Head(s) = " " THEN TrimStart(Tail(s)) ELSE s

RECURSIVE TrimEnd(_)
TrimEnd(s) ==
  IF s # <<>> /\ s[Len(s)] = " " THEN TrimEnd(SubSeq(s, 1, Len(s) - 1)) ELSE s

Trim(s) == TrimEnd(TrimStart(s))

RECURSIVE Join(_, _)
Join(ss, sep) ==
  IF ss = <<>> THEN <<>>
  ELSE IF Len(ss) = 1 THEN ss[1]
  ELSE ss[1] \o sep \o Join(Tail(ss), sep)

-----------------------------------------------------------------------------
(* HTTP *)

IsOk(status) == status >= 200 /\ status <= 299

IsReject(resp) == resp.status = 0

StatusStr(status) ==
  CASE status = 200 -> <<"200">>
    [] status = 401 -> <<"401">>
    [] status = 403 -> <<"403">>
    [] status = 404 -> <<"404">>
    [] status = 500 -> <<"500">>
    [] OTHER -> <<"0">>

StatusText(status) ==
  CASE status = 200 -> <<"OK">>
    [] status = 401 -> <<"Unauthorized">>
    [] status = 403 -> <<"Forbidden">>
    [] status = 404 -> <<"Not", " ", "Found">>
    [] status = 500 -> <<"Internal Server Error">>
    [] OTHER -> <<>>

NetErr == <<"request failed, reason: ECONNRESET">>

ErrBodies == {<<"oops">>, <<>>}

FailStatuses == {401, 403, 404, 500}

OkResp == [status |-> 200, body |-> <<>>]

RejectResp == [status |-> 0, body |-> NetErr]

FailResponses == {[status |-> s, body |-> b] : s \in FailStatuses, b \in ErrBodies}

FewFailures == {[status |-> 500, body |-> <<"oops">>]}

NoResp == [status |-> 0, body |-> <<>>]

HttpErrorText(resp) ==
  StatusStr(resp.status) \o <<" ">> \o StatusText(resp.status)
    \o <<". Response: ">> \o resp.body

-----------------------------------------------------------------------------
(* Configuration and the client object *)

BaseUrls == {<<"https://", "mail.", "x.com">>}

Usernames == {<<"alice", "@", "x.com">>, <<"alice">>}

Overrides == {Undefined, <<"accX">>}

Configs ==
  {[baseUrl |-> b, username |-> u, password |-> <<"pw">>, accountId |-> a] :
     b \in BaseUrls, u \in Usernames, a \in Overrides}

ConfigsRich ==
  {[baseUrl |-> b, username |-> <<"alice", "@", "x.com">>, password |-> <<"pw">>,
    accountId |-> a] :
     b \in BaseUrls, a \in Overrides \cup {<<>>}}

NewClient(config) ==
  [config |-> config, session |-> <<>>, authToken |-> Undefined,
   mailboxCache |-> <<>>]

Credentials(config) ==
  <<"base64(">> \o config.username \o <<":">> \o config.password \o <<")">>

WellKnownUrl(config) == config.baseUrl \o <<"/.well-known/jmap">>

AlternativeUrls(config) ==
  << config.baseUrl \o <<"/jmap">>,
     config.baseUrl \o <<"/jmap/session">>,
     config.baseUrl \o <<"/.well-known/jmap-session">> >>

-----------------------------------------------------------------------------
(* What the remote service may answer *)

Doc(primary, accounts, apiUrl) ==
  [primary |-> primary, accounts |-> accounts, apiUrl |-> apiUrl]

Docs ==
  { Doc(<<"accP">>, <<<<"acc1">>, <<"accP">>>>, <<"api1">>),
    Doc(Undefined, <<<<"acc1">>, <<"acc2">>>>, <<"api2">>) }

DocsRich ==
  { Doc(p, a, u) :
      p \in {Undefined, <<>>, <<"accP">>},
      a \in {<<>>, <<<<"acc1">>, <<"accP">>>>, <<<<"acc2">>, <<"acc1">>>>},
      u \in {<<"api1">>, <<"api2">>} }

Mailbox(id, name, role, ro, rights) ==
  [id |-> id, name |-> name, role |-> role, isReadOnly |-> ro, myRights |-> rights]

MbInbox == Mailbox(<<"M", "1">>, <<"In", "box">>, <<"inbox">>, FALSE, {"mayAddItems"})
MbDrafts == Mailbox(<<"M", "2">>, <<"Draft", "s">>, <<"drafts">>, FALSE, {"mayAddItems"})
MbOldInbox == Mailbox(<<"M", "3">>, <<"Old", " ", "In", "box">>, Undefined, TRUE, {})
MbSent == Mailbox(<<"M", "4">>, <<"Sent">>, <<"sent">>, FALSE, {})
MbBin == Mailbox(<<"M", "5">>, <<"Bin">>, <<"trash">>, FALSE, {"mayCreateChild"})

MailboxLists ==
  { <<>>,
    <<MbInbox>>,
    <<MbOldInbox, MbInbox, MbDrafts>> }

MailboxPool == {MbInbox, MbDrafts, MbOldInbox, MbSent, MbBin}

(* every listing of up to MaxCache distinct mailboxes of the pool *)
MailboxListsRich ==
  UNION { {l \in [1..n -> MailboxPool] : \A i, j \in 1..n : l[i] = l[j] => i = j} :
            n \in 0..MaxCache }

(* mailboxes that tell the strategies of the drafts mailbox choice apart:
   drafts by role only, "draft" in the name only, writable by role (the inbox
   of scenario B), writable by rights, and three that are not writable *)
MbEntwuerfe == Mailbox(<<"M", "6">>, <<"Entwurf">>, <<"drafts">>, FALSE, {})
MbMyDrafts == Mailbox(<<"M", "7">>, <<"My ", "Draft", "s">>, Undefined, TRUE, {})
MbInboxB == Mailbox(<<"M", "2">>, <<"In", "box">>, <<"inbox">>, FALSE, {"mayAddItems"})
MbArchive == Mailbox(<<"M", "9">>, <<"Archive">>, <<"archive">>, TRUE, {"mayAddItems"})

DraftPool == {MbEntwuerfe, MbMyDrafts, MbInboxB, MbBin, MbSent, MbOldInbox, MbArchive}

(* every listing of up to MaxCache distinct mailboxes of the draft pool *)
DraftLists ==
  UNION { {l \in [1..n -> DraftPool] : \A i, j \in 1..n : l[i] = l[j] => i = j} :
            n \in 0..MaxCache }

-----------------------------------------------------------------------------
(* Requests *)

GetReq(url, auth) == [method |-> "GET", url |-> url, auth |-> auth, calls |-> <<>>]

PostReq(url, auth, calls) ==
  [method |-> "POST", url |-> url, auth |-> auth, calls |-> calls]

Call(name, accountId, tag, params) ==
  [name |-> name, accountId |-> accountId, tag |-> tag, params |-> params]

SessionAccountId(c) == IF c.session = <<>> THEN Undefined ELSE c.session[1].accountId

NoParams == [none |-> TRUE]

-----------------------------------------------------------------------------
(* Tasks: one invocation of a public method of a client *)

NoEmail ==
  [to |-> NoList, subject |-> Undefined, textBody |-> Undefined,
   htmlBody |-> Undefined, cc |-> NoList, bcc |-> NoList]

NoRet == [mailboxUsed |-> Undefined, emailId |-> Undefined, submissionId |-> Undefined]

IdleTask ==
  [op |-> "none", pc |-> "idle", cl |-> 0, phase |-> "none", calls |-> <<>>,
   log |-> <<>>, mailboxId |-> Undefined, email |-> NoEmail,
   alt |-> 0, authFail |-> NoResp,
   draftsMailboxId |-> Undefined, draftId |-> Undefined, fromEmail |-> Undefined,
   resolved |-> FALSE, found |-> Undefined, cacheSeen |-> <<>>,
   resp |-> NoResp, doc |-> <<>>, gotSession |-> <<>>,
   createResult |-> <<>>, submitResult |-> <<>>,
   out |-> "none", msg |-> <<>>, reqErr |-> <<>>, ret |-> NoRet,
   hadSession |-> FALSE,
   emailIds |-> <<>>, setResult |-> <<>>, mailAfter |-> <<>>,
   raised |-> <<>>, query |-> Undefined]

Sent(tk, req) == [tk EXCEPT !.log = Append(@, req)]

(* the method ends with an error: raised is the message of the error as it
   was first thrown, msg the message its caller gets *)
Fail(tk, m) == [tk EXCEPT !.pc = "done", !.out = "err", !.msg = m, !.raised = m]

Succeed(tk, r) == [tk EXCEPT !.pc = "done", !.out = "ok", !.ret = r]

(* Reclassify with the permission test made first *)
ReclassifyForbiddenFirst(m) ==
  IF Includes(m, <<"forbidden">>) \/ Includes(m, <<"403">>)
    THEN <<"Insufficient permissions to send email. Please check your account permissions.">>
  ELSE IF Includes(m, <<"not", " ", "found">>) \/ Includes(m, <<"404">>)
    THEN <<"Email service endpoint ", "not", " ", "found",
           ". Please check your JMAP server configuration.">>
  ELSE IF Includes(m, <<"unauthorized">>) \/ Includes(m, <<"401">>)
    THEN <<"Authentication failed. Please check your credentials.">>
  ELSE m

(* sendEmail's catch block: the error is re-classified by its message *)
Reclassify(m) ==
  IF Includes(m, <<"not", " ", "found">>) \/ Includes(m, <<"404">>)
    THEN <<"Email service endpoint ", "not", " ", "found",
           ". Please check your JMAP server configuration.">>
  ELSE IF Includes(m, <<"unauthorized">>) \/ Includes(m, <<"401">>)
    THEN <<"Authentication failed. Please check your credentials.">>
  ELSE IF Includes(m, <<"forbidden">>) \/ Includes(m, <<"403">>)
    THEN <<"Insufficient permissions to send email. Please check your account permissions.">>
  ELSE m

InSendTry(tk) == tk.op = "sendEmail" /\ tk.phase \in {"createDraft", "submitEmail"}

(* an error thrown at the task's current position propagates to its caller *)
Throw(tk, m) ==
  IF InSendTry(tk) THEN [Fail(tk, Reclassify(m)) EXCEPT !.raised = m] ELSE Fail(tk, m)

-----------------------------------------------------------------------------
(* The remote mail store and the JmapMCPServer object *)

EmailIds == {<<"E", "1">>, <<"E", "2">>}

StoredEmail(keywords, mailboxIds) == [keywords |-> keywords, mailboxIds |-> mailboxIds]

(* E1 is unread and E2 is read, both in the inbox *)
InitialMail ==
  [e \in EmailIds |->
     StoredEmail(IF e = <<"E", "2">> THEN {"$seen"} ELSE {}, {<<"M", "1">>})]

(* JmapMCPServer: client (index into clients, 0 for null), isInitialized and
   initPromise, and what has happened to it so far: auto (the outcome of the
   startup auto-connect), everConnected (some connect_jmap has succeeded),
   connectedTo (the client of the latest connect_jmap if it succeeded, else 0)
   and before (client, isInitialized and initPromise as they were when the
   latest connect_jmap began) *)
ServerOf(client, isInitialized, initPromise) ==
  [client |-> client, isInitialized |-> isInitialized, initPromise |-> initPromise,
   auto |-> IF initPromise = "pending" THEN "pending" ELSE "none",
   everConnected |-> FALSE, connectedTo |-> 0,
   before |-> <<client, isInitialized, initPromise>>]

(* one CallTool request: its tool and arguments, its position and the
   response sent for it *)
HandlerOf(tool, args, pc, reply, text) ==
  [tool |-> tool, args |-> args, pc |-> pc, reply |-> reply, text |-> text]

NoHandler == HandlerOf("none", Undefined, "idle", "none", <<>>)

-----------------------------------------------------------------------------
(* authenticate, getSession, jmapRequest *)

PostBatch(c, tk) ==
  [Sent(tk, PostReq(c.session[1].apiUrl, c.authToken, tk.calls)) EXCEPT !.pc = "POST"]

SessionGet(c, tk) ==
  [Sent(tk, GetReq(WellKnownUrl(c.config), c.authToken)) EXCEPT !.pc = "sessGET"]

authenticate(c, tk) ==
  [Sent(tk, GetReq(WellKnownUrl(c.config), Credentials(c.config)))
     EXCEPT !.pc = "authGET"]

getSession(c, tk) ==
  IF ~Truthy(c.authToken) THEN authenticate(c, tk) ELSE SessionGet(c, tk)

(* jmapRequest that establishes a session on every call *)
jmapRequestRediscover(c, tk, phase, calls) ==
  getSession(c, [tk EXCEPT !.phase = phase, !.calls = calls])

jmapRequest(c, tk, phase, calls) ==
  LET t1 == [tk EXCEPT !.phase = phase, !.calls = calls]
  IN IF c.session = <<>> THEN getSession(c, t1) ELSE PostBatch(c, t1)

DiscoveryFailed(resp) ==
  <<"Authentication failed: ">> \o <<"JMAP discovery failed: ">> \o HttpErrorText(resp)

(* AccountIdOf with the primary account taking precedence over the override *)
AccountIdOfPrimaryFirst(config, doc) ==
  OrElse(doc.primary,
         OrElse(config.accountId,
                IF doc.accounts = <<>> THEN Undefined ELSE doc.accounts[1]))

AccountIdOf(config, doc) ==
  OrElse(config.accountId,
         OrElse(doc.primary,
                IF doc.accounts = <<>> THEN Undefined ELSE doc.accounts[1]))

SessionOf(config, doc) ==
  [accountId |-> AccountIdOf(config, doc), apiUrl |-> doc.apiUrl]

Start(t, c, op) ==
  [IdleTask EXCEPT !.op = op, !.cl = c, !.hadSession = (clients[c].session # <<>>)]

CanStart(t) == tasks[t].pc = "idle"

(* the method's promise has settled and its caller has taken the outcome *)
Return(t) ==
  /\ tasks[t].pc = "done"
  /\ tasks' = [tasks EXCEPT ![t] = IdleTask]
  /\ UNCHANGED <<clients, srvEmails, srvSubs, srvMail, server, handlers>>

(* the primary discovery GET of authenticate() has been answered *)
RecvAuth(t, failures) ==
  /\ tasks[t].pc = "authGET"
  /\ LET tk == tasks[t]
         c == clients[tk.cl]
     IN \E resp \in {OkResp, RejectResp} \cup failures :
          /\ UNCHANGED <<srvEmails, srvSubs, srvMail, server, handlers>>
          /\ IF IsReject(resp)
               THEN /\ tasks' = [tasks EXCEPT
                          ![t] = Throw(tk, <<"Authentication failed: ">> \o resp.body)]
                    /\ UNCHANGED clients
             ELSE IF ~IsOk(resp.status)
               THEN /\ tasks' = [tasks EXCEPT
                          ![t] = [Sent(tk, GetReq(AlternativeUrls(c.config)[1],
                                                  Credentials(c.config)))
                                    EXCEPT !.pc = "altGET", !.alt = 1,
                                           !.authFail = resp, !.resp = resp]]
                    /\ UNCHANGED clients
             ELSE /\ clients' = [clients EXCEPT
                        ![tk.cl].authToken = Credentials(c.config)]
                  /\ tasks' = [tasks EXCEPT ![t] = SessionGet(clients'[tk.cl], tk)]

(* one of the alternative discovery probes has been answered *)
RecvAlt(t) ==
  /\ tasks[t].pc = "altGET"
  /\ LET tk == tasks[t]
         c == clients[tk.cl]
     IN \E resp \in {OkResp, RejectResp, [status |-> 404, body |-> <<>>]} :
          /\ UNCHANGED <<clients, srvEmails, srvSubs, srvMail, server, handlers>>
          /\ IF IsReject(resp)
               THEN tasks' = [tasks EXCEPT
                      ![t] = Throw(tk, <<"Authentication failed: ">> \o resp.body)]
             ELSE IF IsOk(resp.status) \/ tk.alt = Len(AlternativeUrls(c.config))
               THEN tasks' = [tasks EXCEPT
                      ![t] = Throw(tk, DiscoveryFailed(tk.authFail))]
             ELSE tasks' = [tasks EXCEPT
                    ![t] = [Sent(tk, GetReq(AlternativeUrls(c.config)[tk.alt + 1],
                                            Credentials(c.config)))
                              EXCEPT !.alt = tk.alt + 1]]

(* the session GET of getSession() has been answered *)
RecvSession(t, docs, failures) ==
  /\ tasks[t].pc = "sessGET"
  /\ LET tk == tasks[t]
         c == clients[tk.cl]
     IN /\ UNCHANGED <<srvEmails, srvSubs, srvMail, server, handlers>>
        /\ \/ \E resp \in {RejectResp} \cup failures :
                /\ UNCHANGED clients
                /\ tasks' = [tasks EXCEPT ![t] =
                     Throw(tk, IF IsReject(resp) THEN resp.body
                               ELSE <<"Session request failed: ">> \o HttpErrorText(resp))]
           \/ \E doc \in docs :
                /\ clients' = [clients EXCEPT
                      ![tk.cl].session = <<SessionOf(c.config, doc)>>]
                /\ tasks' = [tasks EXCEPT ![t] =
                     PostBatch(clients'[tk.cl],
                               [tk EXCEPT !.doc = <<doc>>,
                                          !.gotSession = clients'[tk.cl].session])]

(* RequestFailed that sends the batch once more after a 500 *)
RequestFailedWithRetry(tk, resp) ==
  LET m == IF IsReject(resp) THEN resp.body
           ELSE <<"JMAP request failed: ">> \o HttpErrorText(resp)
  IN IF resp.status = 500 /\ tk.resp = NoResp
       THEN [Sent(tk, tk.log[Len(tk.log)]) EXCEPT !.resp = resp]
       ELSE [Throw(tk, m) EXCEPT !.reqErr = m, !.resp = resp]

(* the batch POST failed at the HTTP level, or fetch rejected *)
RequestFailed(tk, resp) ==
  LET m == IF IsReject(resp) THEN resp.body
           ELSE <<"JMAP request failed: ">> \o HttpErrorText(resp)
  IN [Throw(tk, m) EXCEPT !.reqErr = m, !.resp = resp]

RecvPostFailure(t, failures) ==
  /\ tasks[t].pc = "POST"
  /\ \E resp \in {RejectResp} \cup failures :
       tasks' = [tasks EXCEPT ![t] = RequestFailed(tasks[t], resp)]
  /\ UNCHANGED <<clients, srvEmails, srvSubs, srvMail, server, handlers>>

-----------------------------------------------------------------------------
(* getMailboxes *)

MailboxGetCalls(c) ==
  << Call("Mailbox/get", SessionAccountId(c), "mailboxes", NoParams) >>

CallGetMailboxes(t, c) ==
  /\ CanStart(t)
  /\ tasks' = [tasks EXCEPT ![t] =
       jmapRequest(clients[c], Start(t, c, "getMailboxes"), "mailboxes",
                   MailboxGetCalls(clients[c]))]
  /\ UNCHANGED <<clients, srvEmails, srvSubs, srvMail, server, handlers>>

RecvMailboxes(t) ==
  /\ tasks[t].pc = "POST"
  /\ tasks[t].phase = "mailboxes"
  /\ \E list \in MailboxLists :
       /\ clients' = [clients EXCEPT ![tasks[t].cl].mailboxCache = list]
       /\ tasks' = [tasks EXCEPT ![t] = Succeed(tasks[t], NoRet)]
  /\ UNCHANGED <<srvEmails, srvSubs, srvMail, server, handlers>>

-----------------------------------------------------------------------------
(* findMailboxByName and getEmails *)

(* index of the first element of seq that satisfies P, 0 if there is none *)
FindIndex(seq, P(_)) ==
  IF \E i \in 1..Len(seq) : P(seq[i])
    THEN CHOOSE i \in 1..Len(seq) : P(seq[i]) /\ \A j \in 1..(i - 1) : ~P(seq[j])
    ELSE 0

RoleMap(n) ==
  CASE n = <<"in", "box">> -> <<"inbox">>
    [] n = <<"sent">> -> <<"sent">>
    [] n = <<"draft">> -> <<"drafts">>
    [] n = <<"draft", "s">> -> <<"drafts">>
    [] n = <<"trash">> -> <<"trash">>
    [] n = <<"deleted">> -> <<"trash">>
    [] n = <<"spam">> -> <<"junk">>
    [] n = <<"junk">> -> <<"junk">>
    [] n = <<"archive">> -> <<"archive">>
    [] n = <<"out", "box">> -> <<"outbox">>
    [] OTHER -> Undefined

NormalizedName(mailboxName) == Trim(ToLowerCase(mailboxName))

ExactMatch(cache, n) ==
  LET P(mb) == ToLowerCase(mb.name) = n IN FindIndex(cache, P)

PartialMatch(cache, n) ==
  LET P(mb) == Includes(ToLowerCase(mb.name), n) IN FindIndex(cache, P)

RoleMatch(cache, n) ==
  LET P(mb) == mb.role = RoleMap(n)
  IN IF Truthy(RoleMap(n)) THEN FindIndex(cache, P) ELSE 0

(* FindInCache with the substring match tried before the exact match *)
FindInCachePartialFirst(cache, mailboxName) ==
  LET n == NormalizedName(mailboxName)
      i == IF PartialMatch(cache, n) # 0 THEN PartialMatch(cache, n)
           ELSE IF ExactMatch(cache, n) # 0 THEN ExactMatch(cache, n)
           ELSE RoleMatch(cache, n)
  IN IF i # 0 THEN cache[i].id ELSE Undefined

(* the part of findMailboxByName after the cache has been loaded *)
FindInCache(cache, mailboxName) ==
  LET n == NormalizedName(mailboxName)
      i == IF ExactMatch(cache, n) # 0 THEN ExactMatch(cache, n)
           ELSE IF PartialMatch(cache, n) # 0 THEN PartialMatch(cache, n)
           ELSE RoleMatch(cache, n)
  IN IF i # 0 THEN cache[i].id ELSE Undefined

LowerLetters == {"a", "b", "m", "x"}

(* mailboxId.match(/^[a-z]$/) *)
IsSingleLowerLetter(s) == Len(s) = 1 /\ s[1] \in LowerLetters

NoFilter == [inMailbox |-> Undefined]

(* the argument '#ids' of a get call: a reference to the result of an earlier
   call of the batch, as it is sent *)
BackRef(tag, name) ==
  [k \in {"#ids"} |-> [resultOf |-> tag, name |-> name, path |-> "/ids"]]

EmailQueryCalls(c, filter) ==
  << Call("Email/query", SessionAccountId(c), "query", [filter |-> filter]),
     Call("Email/get", SessionAccountId(c), "emails", BackRef("query", "Email/query")) >>

MailboxNames(cache) == [i \in 1..Len(cache) |-> cache[i].name]

MailboxNotFound(cache, mailboxId) ==
  <<"Mailbox \"">> \o mailboxId \o <<"\" ", "not", " ", "found", ". Available mailboxes: ">>
    \o Join(MailboxNames(cache), <<", ">>)

(* ResolveAndQuery that filters by the label instead of the resolved identifier *)
ResolveAndQueryByLabel(c, tk) ==
  LET f == FindInCache(c.mailboxCache, tk.mailboxId)
      t1 == [tk EXCEPT !.resolved = TRUE, !.found = f, !.cacheSeen = c.mailboxCache]
  IN IF ~Truthy(f)
       THEN Throw(t1, MailboxNotFound(c.mailboxCache, tk.mailboxId))
       ELSE jmapRequest(c, t1, "query", EmailQueryCalls(c, [inMailbox |-> tk.mailboxId]))

(* getEmails from the return of findMailboxByName on *)
ResolveAndQuery(c, tk) ==
  LET f == FindInCache(c.mailboxCache, tk.mailboxId)
      t1 == [tk EXCEPT !.resolved = TRUE, !.found = f, !.cacheSeen = c.mailboxCache]
  IN IF ~Truthy(f)
       THEN Throw(t1, MailboxNotFound(c.mailboxCache, tk.mailboxId))
       ELSE jmapRequest(c, t1, "query", EmailQueryCalls(c, [inMailbox |-> f]))

getEmails(c, tk) ==
  IF ~Truthy(tk.mailboxId)
    THEN jmapRequest(c, tk, "queryAll",
           << Call("Email/query", SessionAccountId(c), "query", NoParams),
              EmailQueryCalls(c, NoFilter)[2] >>)
  ELSE IF ~IsSingleLowerLetter(tk.mailboxId)
    THEN IF Len(c.mailboxCache) = 0
           THEN jmapRequest(c, tk, "findMailboxes", MailboxGetCalls(c))
           ELSE ResolveAndQuery(c, tk)
  ELSE jmapRequest(c, tk, "query", EmailQueryCalls(c, [inMailbox |-> tk.mailboxId]))

Labels ==
  { Undefined, <<"a">>, <<"M", "1">>, <<"In", "box">>, <<"IN", "BOX", " ">>,
    <<"box">>, <<"draft">>, <<"nope">> }

LabelsRich ==
  Labels \cup
  { <<"in">>, <<" ", "in", "box">>, <<"draft", "s">>, <<"Trash">>, <<"deleted">>,
    <<"Sent">>, <<"out", "box">>, <<" ">>, <<"Old", " ", "In", "box">>, <<"bin">> }

CallGetEmails(t, c, labels) ==
  /\ CanStart(t)
  /\ \E mailboxId \in labels :
       tasks' = [tasks EXCEPT ![t] =
         getEmails(clients[c], [Start(t, c, "getEmails") EXCEPT !.mailboxId = mailboxId])]
  /\ UNCHANGED <<clients, srvEmails, srvSubs, srvMail, server, handlers>>

(* the Mailbox/get issued by findMailboxByName has been answered *)
RecvFindMailboxes(t, lists) ==
  /\ tasks[t].pc = "POST"
  /\ tasks[t].phase = "findMailboxes"
  /\ \E list \in lists :
       /\ clients' = [clients EXCEPT ![tasks[t].cl].mailboxCache = list]
       /\ tasks' = [tasks EXCEPT ![t] = ResolveAndQuery(clients'[tasks[t].cl], tasks[t])]
  /\ UNCHANGED <<srvEmails, srvSubs, srvMail, server, handlers>>

RecvQuery(t) ==
  /\ tasks[t].pc = "POST"
  /\ tasks[t].phase \in {"query", "queryAll"}
  /\ tasks' = [tasks EXCEPT ![t] =
       Succeed(tasks[t],
         [NoRet EXCEPT !.mailboxUsed =
            IF tasks[t].phase = "queryAll" THEN <<"all">>
            ELSE tasks[t].calls[1].params.filter.inMailbox])]
  /\ UNCHANGED <<clients, srvEmails, srvSubs, srvMail, server, handlers>>

-----------------------------------------------------------------------------
(* searchEmails *)

(* the atoms whose first character is the capital letter M *)
CapitalMAtoms == {"M", "My "}

(* mailboxId.startsWith('M') *)
StartsWithM(s) == s # <<>> /\ s[1] \in CapitalMAtoms

SearchFilter(query, mailboxId) ==
  [text |-> query, inMailbox |-> IF Truthy(mailboxId) THEN mailboxId ELSE Undefined]

(* SearchCalls whose back-reference names the tag of getEmails *)
SearchCallsStaleTag(c, filter) ==
  << Call("Email/query", SessionAccountId(c), "search", [filter |-> filter]),
     Call("Email/get", SessionAccountId(c), "emails", BackRef("query", "Email/query")) >>

SearchCalls(c, filter) ==
  << Call("Email/query", SessionAccountId(c), "search", [filter |-> filter]),
     Call("Email/get", SessionAccountId(c), "emails", BackRef("search", "Email/query")) >>

(* searchEmails from the return of findMailboxByName on *)
ResolveAndSearch(c, tk) ==
  LET f == FindInCache(c.mailboxCache, tk.mailboxId)
      t1 == [tk EXCEPT !.resolved = TRUE, !.found = f, !.cacheSeen = c.mailboxCache]
  IN IF ~Truthy(f)
       THEN Throw(t1, MailboxNotFound(c.mailboxCache, tk.mailboxId))
       ELSE jmapRequest(c, t1, "search", SearchCalls(c, SearchFilter(tk.query, f)))

(* searchEmails with the test of getEmails for an identifier *)
searchEmailsLikeList(c, tk) ==
  IF Truthy(tk.mailboxId) /\ ~IsSingleLowerLetter(tk.mailboxId)
    THEN IF Len(c.mailboxCache) = 0
           THEN jmapRequest(c, tk, "searchMailboxes", MailboxGetCalls(c))
           ELSE ResolveAndSearch(c, tk)
  ELSE jmapRequest(c, tk, "search", SearchCalls(c, SearchFilter(tk.query, tk.mailboxId)))

searchEmails(c, tk) ==
  IF Truthy(tk.mailboxId) /\ ~StartsWithM(tk.mailboxId)
    THEN IF Len(c.mailboxCache) = 0
           THEN jmapRequest(c, tk, "searchMailboxes", MailboxGetCalls(c))
           ELSE ResolveAndSearch(c, tk)
  ELSE jmapRequest(c, tk, "search", SearchCalls(c, SearchFilter(tk.query, tk.mailboxId)))

CallSearchEmails(t, c, queries, labels) ==
  /\ CanStart(t)
  /\ \E query \in queries, mailboxId \in labels :
       tasks' = [tasks EXCEPT ![t] =
         searchEmails(clients[c], [Start(t, c, "searchEmails") EXCEPT
                                     !.query = query, !.mailboxId = mailboxId])]
  /\ UNCHANGED <<clients, srvEmails, srvSubs, srvMail, server, handlers>>

(* the Mailbox/get issued by findMailboxByName for searchEmails has been
   answered *)
RecvSearchMailboxes(t, lists) ==
  /\ tasks[t].pc = "POST"
  /\ tasks[t].phase = "searchMailboxes"
  /\ \E list \in lists :
       /\ clients' = [clients EXCEPT ![tasks[t].cl].mailboxCache = list]
       /\ tasks' = [tasks EXCEPT ![t] = ResolveAndSearch(clients'[tasks[t].cl], tasks[t])]
  /\ UNCHANGED <<srvEmails, srvSubs, srvMail, server, handlers>>

RecvSearch(t) ==
  /\ tasks[t].pc = "POST"
  /\ tasks[t].phase = "search"
  /\ tasks' = [tasks EXCEPT ![t] =
       Succeed(tasks[t],
         [NoRet EXCEPT !.mailboxUsed = tasks[t].calls[1].params.filter.inMailbox])]
  /\ UNCHANGED <<clients, srvEmails, srvSubs, srvMail, server, handlers>>

-----------------------------------------------------------------------------
(* getCalendarEvents, getContacts, searchContacts *)

(* this.session!.accountId on a client that has no session *)
NullSessionError == <<"Cannot read properties of null (reading 'accountId')">>

(* {} with the one key set when the identifier is given *)
InFilter(key, id) == IF Truthy(id) THEN [k \in {key} |-> id] ELSE [k \in {} |-> Undefined]

CalendarEventCalls(c, calendarId) ==
  << Call("CalendarEvent/query", SessionAccountId(c), "a",
          [filter |-> InFilter("inCalendar", calendarId)]),
     Call("CalendarEvent/get", SessionAccountId(c), "b", BackRef("a", "CalendarEvent/query")) >>

ContactCalls(c, filter) ==
  << Call("Contact/query", SessionAccountId(c), "a", [filter |-> filter]),
     Call("Contact/get", SessionAccountId(c), "b", BackRef("a", "Contact/query")) >>

(* a method that reads this.session!.accountId while it builds its batch *)
WithSession(c, tk, phase, calls) ==
  IF c.session = <<>> THEN Fail(tk, NullSessionError) ELSE jmapRequest(c, tk, phase, calls)

ObjectIds == {Undefined, <<"K", "1">>}

CallGetCalendarEvents(t, c) ==
  /\ CanStart(t)
  /\ \E calendarId \in ObjectIds :
       tasks' = [tasks EXCEPT ![t] =
         WithSession(clients[c], Start(t, c, "getCalendarEvents"), "calendarEvents",
                     CalendarEventCalls(clients[c], calendarId))]
  /\ UNCHANGED <<clients, srvEmails, srvSubs, srvMail, server, handlers>>

CallGetContacts(t, c) ==
  /\ CanStart(t)
  /\ \E addressBookId \in ObjectIds :
       tasks' = [tasks EXCEPT ![t] =
         WithSession(clients[c], Start(t, c, "getContacts"), "contacts",
                     ContactCalls(clients[c], InFilter("inAddressBook", addressBookId)))]
  /\ UNCHANGED <<clients, srvEmails, srvSubs, srvMail, server, handlers>>

CallSearchContacts(t, c, queries) ==
  /\ CanStart(t)
  /\ \E query \in queries :
       tasks' = [tasks EXCEPT ![t] =
         WithSession(clients[c], [Start(t, c, "searchContacts") EXCEPT !.query = query],
                     "contactSearch", ContactCalls(clients[c], [text |-> query]))]
  /\ UNCHANGED <<clients, srvEmails, srvSubs, srvMail, server, handlers>>

(* the query and get batch of a calendar or contact method has been answered *)
RecvPair(t) ==
  /\ tasks[t].pc = "POST"
  /\ tasks[t].phase \in {"calendarEvents", "contacts", "contactSearch"}
  /\ tasks' = [tasks EXCEPT ![t] = Succeed(tasks[t], NoRet)]
  /\ UNCHANGED <<clients, srvEmails, srvSubs, srvMail, server, handlers>>

-----------------------------------------------------------------------------
(* markAsRead, markAsUnread, deleteEmails and the server's Email/set update *)

TrashId == <<"M", "5">>

Patch(path, value) == [path |-> path, value |-> value]

(* deleteEmails that moves the emails to the trash mailbox *)
FlagPatchMoveToTrash(op) ==
  CASE op = "markAsRead" -> Patch("keywords/$seen", "true")
    [] op = "markAsUnread" -> Patch("keywords/$seen", "null")
    [] OTHER -> Patch("mailboxIds", "trash")

(* the one property each of the three methods sets on every email *)
FlagPatch(op) ==
  CASE op = "markAsRead" -> Patch("keywords/$seen", "true")
    [] op = "markAsUnread" -> Patch("keywords/$seen", "null")
    [] OTHER -> Patch("keywords/$deleted", "true")

FlagTag(op) ==
  CASE op = "markAsRead" -> "markRead"
    [] op = "markAsUnread" -> "markUnread"
    [] OTHER -> "delete"

FlagOps == {"markAsRead", "markAsUnread", "deleteEmails"}

FlagTags == {FlagTag(op) : op \in FlagOps}

Range(seq) == {seq[i] : i \in 1..Len(seq)}

(* Object.fromEntries(emailIds.map(id => [id, patch])) *)
UpdateMap(emailIds, patch) == [id \in Range(emailIds) |-> patch]

FlagCalls(c, op, emailIds) ==
  << Call("Email/set", SessionAccountId(c), FlagTag(op),
          [update |-> UpdateMap(emailIds, FlagPatch(op))]) >>

(* the argument lists tried: known and unknown identifiers, one repeated *)
IdLists ==
  { <<>>, <<<<"E", "1">>>>, <<<<"E", "1">>, <<"E", "2">>>>,
    <<<<"E", "2">>, <<"E", "2">>>>, <<<<"E", "1">>, <<"E", "9">>>> }

CallSetFlag(t, c, ops, idLists) ==
  /\ CanStart(t)
  /\ \E op \in ops, emailIds \in idLists :
       tasks' = [tasks EXCEPT ![t] =
         jmapRequest(clients[c], [Start(t, c, op) EXCEPT !.emailIds = emailIds],
                     FlagTag(op), FlagCalls(clients[c], op, emailIds))]
  /\ UNCHANGED <<clients, srvEmails, srvSubs, srvMail, server, handlers>>

(* the server applying one patch of an Email/set update to an email *)
ApplyPatch(email, patch) ==
  CASE patch = Patch("keywords/$seen", "true") ->
         [email EXCEPT !.keywords = @ \cup {"$seen"}]
    [] patch = Patch("keywords/$seen", "null") ->
         [email EXCEPT !.keywords = @ \ {"$seen"}]
    [] patch = Patch("keywords/$deleted", "true") ->
         [email EXCEPT !.keywords = @ \cup {"$deleted"}]
    [] patch = Patch("mailboxIds", "trash") ->
         [email EXCEPT !.mailboxIds = {TrashId}]
    [] OTHER -> email

ApplyUpdate(mail, update) ==
  [e \in DOMAIN mail |-> IF e \in DOMAIN update THEN ApplyPatch(mail[e], update[e]) ELSE mail[e]]

(* the method response: Email/set with updated and notUpdated, or an error *)
SetUpdated(mail, update) ==
  [name |-> "Email/set", updated |-> DOMAIN update \cap DOMAIN mail,
   notUpdated |-> DOMAIN update \ DOMAIN mail]

MethodError == [name |-> "error", updated |-> {}, notUpdated |-> {}]

(* the Email/set update has been answered; a call that names no account is
   either refused with a method-level error or carried out on the user's
   only account *)
RecvSetFlags(t) ==
  /\ tasks[t].pc = "POST"
  /\ tasks[t].phase \in FlagTags
  /\ LET call == tasks[t].calls[1]
         update == call.params.update
     IN \E accepted \in IF call.accountId = Undefined THEN {TRUE, FALSE} ELSE {TRUE} :
          /\ srvMail' = IF accepted THEN ApplyUpdate(srvMail, update) ELSE srvMail
          /\ tasks' = [tasks EXCEPT ![t] =
               [Succeed(tasks[t], NoRet) EXCEPT
                  !.setResult = << IF accepted THEN SetUpdated(srvMail, update)
                                   ELSE MethodError >>,
                  !.mailAfter = << srvMail' >>]]
  /\ UNCHANGED <<clients, srvEmails, srvSubs, server, handlers>>

-----------------------------------------------------------------------------
(* sendEmail *)

Email(to, subject, textBody, htmlBody, cc, bcc) ==
  [to |-> to, subject |-> subject, textBody |-> textBody, htmlBody |-> htmlBody,
   cc |-> cc, bcc |-> bcc]

(* ValidationError with the subject check left out *)
ValidationErrorNoSubject(e) ==
  IF e.to = NoList \/ Len(e.to) = 0
    THEN <<"Recipients (to field) are required">>
  ELSE IF ~Truthy(e.textBody) /\ ~Truthy(e.htmlBody)
    THEN <<"Either textBody or htmlBody is required">>
  ELSE <<>>

(* the three checks at the head of sendEmail; <<>> when the request passes *)
ValidationError(e) ==
  IF e.to = NoList \/ Len(e.to) = 0
    THEN <<"Recipients (to field) are required">>
  ELSE IF ~Truthy(e.subject)
    THEN <<"Subject is required">>
  ELSE IF ~Truthy(e.textBody) /\ ~Truthy(e.htmlBody)
    THEN <<"Either textBody or htmlBody is required">>
  ELSE <<>>

IsWritable(mb) ==
  \/ mb.role = <<"inbox">>
  \/ /\ ~mb.isReadOnly
     /\ ("mayAddItems" \in mb.myRights \/ "mayCreateChild" \in mb.myRights)

(* DraftsMailboxId with the name strategy tried before the role strategy *)
DraftsMailboxIdNameFirst(cache) ==
  LET ByRole(mb) == mb.role = <<"drafts">>
      ByName(mb) == Truthy(mb.name) /\ Includes(ToLowerCase(mb.name), <<"draft">>)
      i == IF FindIndex(cache, ByName) # 0 THEN FindIndex(cache, ByName)
           ELSE IF FindIndex(cache, ByRole) # 0 THEN FindIndex(cache, ByRole)
           ELSE IF FindIndex(cache, IsWritable) # 0 THEN FindIndex(cache, IsWritable)
           ELSE IF Len(cache) > 0 THEN 1
           ELSE 0
  IN IF i # 0 THEN cache[i].id ELSE Undefined

(* strategies 1 to 3 and the last resort; Undefined for an empty cache *)
DraftsMailboxId(cache) ==
  LET ByRole(mb) == mb.role = <<"drafts">>
      ByName(mb) == Truthy(mb.name) /\ Includes(ToLowerCase(mb.name), <<"draft">>)
      i == IF FindIndex(cache, ByRole) # 0 THEN FindIndex(cache, ByRole)
           ELSE IF FindIndex(cache, ByName) # 0 THEN FindIndex(cache, ByName)
           ELSE IF FindIndex(cache, IsWritable) # 0 THEN FindIndex(cache, IsWritable)
           ELSE IF Len(cache) > 0 THEN 1
           ELSE 0
  IN IF i # 0 THEN cache[i].id ELSE Undefined

(* new URL(baseUrl).hostname.replace(/^mail\./, '') *)
MailDomain(baseUrl) ==
  LET hostname == Tail(baseUrl)
  IN IF hostname # <<>> /\ Head(hostname) = "mail." THEN Tail(hostname) ELSE hostname

FromEmail(config) ==
  IF Includes(config.username, <<"@">>) THEN config.username
  ELSE config.username \o <<"@">> \o MailDomain(config.baseUrl)

OrEmpty(list) == IF list = NoList THEN <<>> ELSE list

TrimAll(list) == [i \in 1..Len(list) |-> Trim(list[i])]

BodyParts(e) ==
  IF Truthy(e.htmlBody) /\ Truthy(e.textBody) THEN <<"text/plain", "text/html">>
  ELSE IF Truthy(e.htmlBody) THEN <<"text/html">>
  ELSE <<"text/plain">>

DraftObject(fromEmail, e, draftsMailboxId) ==
  [from |-> <<fromEmail>>, to |-> TrimAll(e.to), subject |-> e.subject,
   keywords |-> {"$draft"}, mailboxIds |-> {draftsMailboxId},
   cc |-> TrimAll(OrEmpty(e.cc)), bcc |-> TrimAll(OrEmpty(e.bcc)),
   bodyParts |-> BodyParts(e)]

CreateDraftCalls(c, email) ==
  << Call("Email/set", SessionAccountId(c), "createDraft",
          [create |-> [draft |-> email]]) >>

(* Envelope with the recipients of the to field only *)
EnvelopeToOnly(fromEmail, e) ==
  [mailFrom |-> fromEmail, rcptTo |-> TrimAll(e.to)]

Envelope(fromEmail, e) ==
  [mailFrom |-> fromEmail,
   rcptTo |-> TrimAll(e.to) \o TrimAll(OrEmpty(e.cc)) \o TrimAll(OrEmpty(e.bcc))]

SubmitCalls(c, draftId, envelope) ==
  << Call("EmailSubmission/set", SessionAccountId(c), "submitEmail",
          [create |-> [send |-> [emailId |-> draftId,
                                 identityId |-> SessionAccountId(c),
                                 envelope |-> envelope]]]) >>

AllEmails(fromEmail, e) == <<fromEmail>> \o e.to \o OrEmpty(e.cc) \o OrEmpty(e.bcc)

InvalidAddress(email) ==
  <<"Invalid email address: \"">> \o email
    \o <<"\". Email addresses must be in the format user@domain.com">>

(* JSON.stringify of a SetError that has no description *)
StringifyError(err) ==
  IF err.type = Undefined THEN <<"{}">>
  ELSE <<"{\"type\":\"">> \o err.type \o <<"\"}">>

SetErrorText(err) ==
  OrElse(err.type, <<"Unknown error">>) \o <<" - ">>
    \o OrElse(err.description, StringifyError(err))

(* CreateDraft with the addresses checked before the draft is created *)
CreateDraftChecked(c, tk) ==
  LET id == DraftsMailboxId(c.mailboxCache)
      fromEmail == FromEmail(c.config)
      t1 == [tk EXCEPT !.draftsMailboxId = id, !.cacheSeen = c.mailboxCache]
      all == AllEmails(fromEmail, tk.email)
      NoAtSign(x) == ~Includes(x, <<"@">>)
      bad == FindIndex(all, NoAtSign)
  IN IF ~Truthy(id)
       THEN Fail(t1, <<"No suitable mailbox found for creating draft email">>)
     ELSE IF bad # 0
       THEN Fail(t1, InvalidAddress(all[bad]))
     ELSE jmapRequest(c, [t1 EXCEPT !.fromEmail = fromEmail], "createDraft",
            CreateDraftCalls(c, DraftObject(fromEmail, tk.email, id)))

(* sendEmail from the point where the mailbox cache has been loaded *)
CreateDraft(c, tk) ==
  LET id == DraftsMailboxId(c.mailboxCache)
      fromEmail == FromEmail(c.config)
      t1 == [tk EXCEPT !.draftsMailboxId = id, !.cacheSeen = c.mailboxCache]
  IN IF ~Truthy(id)
       THEN Fail(t1, <<"No suitable mailbox found for creating draft email">>)
       ELSE jmapRequest(c, [t1 EXCEPT !.fromEmail = fromEmail], "createDraft",
              CreateDraftCalls(c, DraftObject(fromEmail, tk.email, id)))

(* sendEmail that lists the mailboxes whatever the cache holds *)
sendEmailAlwaysLists(c, tk) ==
  IF ValidationError(tk.email) # <<>>
    THEN Fail(tk, ValidationError(tk.email))
  ELSE jmapRequest(c, tk, "sendMailboxes", MailboxGetCalls(c))

sendEmail(c, tk) ==
  IF ValidationError(tk.email) # <<>>
    THEN Fail(tk, ValidationError(tk.email))
  ELSE IF Len(c.mailboxCache) = 0
    THEN jmapRequest(c, tk, "sendMailboxes", MailboxGetCalls(c))
  ELSE CreateDraft(c, tk)

Good == <<"a", "@", "x.com">>
Spaced == <<" ", "b", "@", "x.com">>
NoAt == <<"bob">>
NoAt404 == <<"bob", "404">>

ValidationInputs ==
  { Email(to, s, tx, h, NoList, NoList) :
      to \in {NoList, <<>>, <<Good>>},
      s \in {Undefined, <<>>, <<"Hi">>},
      tx \in {Undefined, <<>>, <<"Hello">>},
      h \in {Undefined, <<"<p>">>} }

AddressInputs ==
  { Email(to, <<"Hi">>, <<"Hello">>, Undefined, cc, bcc) :
      to \in {<<NoAt>>, <<Spaced, NoAt404>>},
      cc \in {NoList, <<Good>>},
      bcc \in {NoList, <<NoAt>>} }
  \cup { Email(<<Good>>, <<"Hi">>, <<"Hello">>, Undefined, <<Spaced>>, <<NoAt>>),
         Email(<<Good>>, <<"Hi">>, <<"Hello">>, Undefined, <<NoAt>>, <<Good>>),
         Email(<<Good>>, <<"Hi">>, <<"Hello">>, Undefined, <<Spaced>>, <<Good>>) }

SendInputs == ValidationInputs \cup AddressInputs

CallSendEmail(t, c, inputs) ==
  /\ CanStart(t)
  /\ \E e \in inputs :
       tasks' = [tasks EXCEPT ![t] =
         sendEmail(clients[c], [Start(t, c, "sendEmail") EXCEPT !.email = e])]
  /\ UNCHANGED <<clients, srvEmails, srvSubs, srvMail, server, handlers>>

(* the Mailbox/get issued by sendEmail on an empty cache has been answered *)
RecvSendMailboxes(t, lists) ==
  /\ tasks[t].pc = "POST"
  /\ tasks[t].phase = "sendMailboxes"
  /\ \E list \in lists :
       /\ clients' = [clients EXCEPT ![tasks[t].cl].mailboxCache = list]
       /\ tasks' = [tasks EXCEPT ![t] = CreateDraft(clients'[tasks[t].cl], tasks[t])]
  /\ UNCHANGED <<srvEmails, srvSubs, srvMail, server, handlers>>

SetError(type, description) == [type |-> type, description |-> description]

ErrTypes == {Undefined, <<"invalidRecipients">>, <<"forbidden", "From">>}

ErrDescriptions == {Undefined, <<"mailbox ", "not", " ", "found">>}

SetErrors == {SetError(ty, d) : ty \in ErrTypes, d \in ErrDescriptions}

SetResult(created, notCreated) == [created |-> created, notCreated |-> notCreated]

Rejections == {SetResult(<<>>, <<err>>) : err \in SetErrors}

MissingResult == SetResult(<<>>, <<>>)

IdDigits == <<"1", "2", "3", "4">>

NextDraftId == <<"D", IdDigits[Cardinality(srvEmails) + 1]>>

NextSubId == <<"S", IdDigits[Cardinality(srvSubs) + 1]>>

(* the code between the draft response and the submission request *)
AfterDraftCreated(c, tk, draftId) ==
  LET t1 == [tk EXCEPT !.draftId = draftId]
      all == AllEmails(tk.fromEmail, tk.email)
      NoAtSign(a) == ~Includes(a, <<"@">>)
      bad == FindIndex(all, NoAtSign)
  IN IF bad # 0
       THEN Throw(t1, InvalidAddress(all[bad]))
       ELSE jmapRequest(c, t1, "submitEmail",
              SubmitCalls(c, draftId, Envelope(tk.fromEmail, tk.email)))

DraftRejected(tk, err) == Throw(tk, <<"Failed to create draft: ">> \o SetErrorText(err))

DraftMissing(tk) == Throw(tk, <<"Draft creation failed - no created object returned">>)

(* OnCreateResponse without the check for a missing created entry *)
OnCreateResponseUnchecked(c, tk, createResult) ==
  LET t1 == [tk EXCEPT !.createResult = <<createResult>>]
  IN IF createResult.notCreated # <<>>
       THEN DraftRejected(t1, createResult.notCreated[1])
     ELSE AfterDraftCreated(c, t1, IF createResult.created = <<>> THEN Undefined
                                   ELSE createResult.created[1])

(* sendEmail from the response to Email/set on *)
OnCreateResponse(c, tk, createResult) ==
  LET t1 == [tk EXCEPT !.createResult = <<createResult>>]
  IN IF createResult.notCreated # <<>>
       THEN DraftRejected(t1, createResult.notCreated[1])
     ELSE IF createResult.created = <<>>
       THEN DraftMissing(t1)
     ELSE AfterDraftCreated(c, t1, createResult.created[1])

(* the Email/set create has been answered with success status *)
RecvCreateDraft(t) ==
  /\ tasks[t].pc = "POST"
  /\ tasks[t].phase = "createDraft"
  /\ LET tk == tasks[t]
         c == clients[tk.cl]
         draft == tk.calls[1].params.create.draft
         accepted == IF Cardinality(srvEmails) < MaxDrafts
                       THEN {SetResult(<<NextDraftId>>, <<>>)} ELSE {}
     IN \E r \in Rejections \cup {MissingResult} \cup accepted :
          /\ srvEmails' =
               IF r.created # <<>>
                 THEN srvEmails \cup {[id |-> r.created[1], keywords |-> draft.keywords,
                                       mailboxIds |-> draft.mailboxIds]}
                 ELSE srvEmails
          /\ tasks' = [tasks EXCEPT ![t] = OnCreateResponse(c, tk, r)]
          /\ UNCHANGED <<clients, srvSubs, srvMail, server, handlers>>

(* SubmitRejected with a compensating destroy of the draft *)
SubmitRejectedWithRollback(tk, err) ==
  LET last == tk.log[Len(tk.log)]
      undo == PostReq(last.url, last.auth,
                << Call("Email/set", last.calls[1].accountId, "rollback",
                        [destroy |-> <<tk.draftId>>]) >>)
  IN Throw(Sent(tk, undo), <<"Failed to send email: ">> \o SetErrorText(err))

SubmitRejected(tk, err) == Throw(tk, <<"Failed to send email: ">> \o SetErrorText(err))

SubmitMissing(tk) ==
  Throw(tk, <<"Email submission failed - no submission object returned">>)

(* sendEmail from the response to EmailSubmission/set on *)
OnSubmitResponse(tk, submitResult) ==
  LET t1 == [tk EXCEPT !.submitResult = <<submitResult>>]
  IN IF submitResult.notCreated # <<>>
       THEN SubmitRejected(t1, submitResult.notCreated[1])
     ELSE IF submitResult.created = <<>>
       THEN SubmitMissing(t1)
     ELSE Succeed(t1, [NoRet EXCEPT !.emailId = tk.draftId,
                                    !.submissionId = submitResult.created[1]])

(* the EmailSubmission/set create has been answered with success status *)
RecvSubmit(t) ==
  /\ tasks[t].pc = "POST"
  /\ tasks[t].phase = "submitEmail"
  /\ LET tk == tasks[t]
         send == tk.calls[1].params.create.send
         accepted == IF Cardinality(srvSubs) < MaxSubs
                       THEN {SetResult(<<NextSubId>>, <<>>)} ELSE {}
     IN \E r \in Rejections \cup {MissingResult} \cup accepted :
          /\ srvSubs' =
               IF r.created # <<>>
                 THEN srvSubs \cup {[id |-> r.created[1], emailId |-> send.emailId,
                                     rcptTo |-> send.envelope.rcptTo]}
                 ELSE srvSubs
          /\ tasks' = [tasks EXCEPT ![t] = OnSubmitResponse(tk, r)]
          /\ UNCHANGED <<clients, srvEmails, srvMail, server, handlers>>

-----------------------------------------------------------------------------
(* JmapMCPServer: startup auto-connect, the CallTool dispatcher, connect_jmap
   and the command handlers *)

MaxClients == 2

(* the server's three lines of execution: initializeFromEnv, the connect_jmap
   request in progress and the mail command in progress *)
InitTask == 1
ConnectTask == 2
CommandTask == 3

Tools == {"get_mailboxes", "get_emails"}

NotConnectedText ==
  <<"Not connected to Jmap Mail server. Please use the connect_jmap tool first with your server details.">>

(* the catch block of the CallTool handler *)
ToolExecutionFailed(m) == <<"Tool execution failed: ">> \o m

Replied(h, reply, text) == [h EXCEPT !.pc = "replied", !.reply = reply, !.text = text]

(* continuations of settled promises run before the next response or request
   is taken up *)
Quiet ==
  /\ \A t \in DOMAIN tasks : tasks[t].pc # "done"
  /\ \A t \in DOMAIN handlers : handlers[t].pc # "replied"
  /\ server.initPromise = "resolved" => \A t \in DOMAIN handlers : handlers[t].pc # "waitInit"

EnvConfigs ==
  {cfg \in Configs : cfg.username = <<"alice", "@", "x.com">> /\ cfg.accountId = Undefined}

(* the arguments of connect_jmap, for either user, or none at all *)
ConnectArgs == {<<cfg>> : cfg \in {k \in Configs : k.accountId = Undefined}} \cup {<<>>}

(* ensureInitialized that never waits *)
MustWaitNever(srv) == FALSE

(* ensureInitialized: await this.initPromise *)
MustWait(srv) == srv.initPromise = "pending"

(* the handlers' test with the isInitialized check left out *)
NotConnectedNoClientOnly(srv) == srv.client = 0

(* the handlers' test !this.client || !this.isInitialized *)
NotConnected(srv) == srv.client = 0 \/ ~srv.isInitialized

(* Invoke on the client the server had first *)
InvokeOnFirstClient(t, tool, args) ==
  LET c == 1
  IN IF tool = "get_mailboxes"
       THEN jmapRequest(clients[c], Start(t, c, "getMailboxes"), "mailboxes",
                        MailboxGetCalls(clients[c]))
       ELSE getEmails(clients[c], [Start(t, c, "getEmails") EXCEPT !.mailboxId = args])

(* the call of the client method that the handler of the tool makes *)
Invoke(t, tool, args) ==
  LET c == server.client
  IN IF tool = "get_mailboxes"
       THEN jmapRequest(clients[c], Start(t, c, "getMailboxes"), "mailboxes",
                        MailboxGetCalls(clients[c]))
       ELSE getEmails(clients[c], [Start(t, c, "getEmails") EXCEPT !.mailboxId = args])

(* a command handler from the return of ensureInitialized on *)
Dispatch(t, tool, args) ==
  /\ IF NotConnected(server)
       THEN /\ handlers' = [handlers EXCEPT ![t] =
                 Replied(HandlerOf(tool, args, "idle", "none", <<>>),
                         "notConnected", NotConnectedText)]
            /\ UNCHANGED tasks
       ELSE /\ handlers' = [handlers EXCEPT ![t] =
                 HandlerOf(tool, args, "running", "none", <<>>)]
            /\ tasks' = [tasks EXCEPT ![t] = Invoke(t, tool, args)]
  /\ UNCHANGED <<clients, srvEmails, srvSubs, srvMail, server>>

(* a CallTool request for a mail command arrives *)
CallTool(t, labels) ==
  /\ Quiet
  /\ t = CommandTask
  /\ handlers[t].pc = "idle"
  /\ \E tool \in Tools, label \in labels :
       LET args == IF tool = "get_emails" THEN label ELSE Undefined
       IN IF MustWait(server)
            THEN /\ handlers' = [handlers EXCEPT ![t] =
                      HandlerOf(tool, args, "waitInit", "none", <<>>)]
                 /\ UNCHANGED <<clients, tasks, srvEmails, srvSubs, srvMail, server>>
            ELSE Dispatch(t, tool, args)

(* initPromise has resolved and a handler waiting for it goes on *)
Evaluate(t) ==
  /\ handlers[t].pc = "waitInit"
  /\ server.initPromise = "resolved"
  /\ \A u \in DOMAIN tasks : tasks[u].pc # "done"
  /\ Dispatch(t, handlers[t].tool, handlers[t].args)

DestructureError ==
  <<"Cannot destructure property 'baseUrl' of 'args' as it is undefined.">>

ConnectedText(baseUrl) ==
  <<"Successfully connected to Jmap Mail server at ">> \o baseUrl

(* the text of a method's result, of which the model keeps the mailbox used *)
ResultText(tk) == <<"{">> \o tk.ret.mailboxUsed \o <<"}">>

(* a failure reported as the result of the command *)
FailureReplySwallowed(h, m) == Replied(h, "result", m)

(* the CallTool handler's catch: every failure becomes an internal error *)
FailureReply(h, m) == Replied(h, "internalError", ToolExecutionFailed(m))

(* a CallTool request for connect_jmap arrives: handleConnect up to the fetch
   of its getMailboxes *)
CallConnect(t) ==
  /\ Quiet
  /\ t = ConnectTask
  /\ handlers[t].pc = "idle"
  /\ Len(clients) < MaxClients
  /\ \E args \in ConnectArgs :
       LET h == HandlerOf("connect_jmap",
                          IF args = <<>> THEN Undefined ELSE args[1].baseUrl,
                          "running", "none", <<>>)
           c == Len(clients) + 1
           new == NewClient(args[1])
       IN IF args = <<>>
            THEN /\ handlers' = [handlers EXCEPT ![t] = FailureReply(h, DestructureError)]
                 /\ UNCHANGED <<clients, tasks, server>>
            ELSE /\ clients' = Append(clients, new)
                 /\ server' = [server EXCEPT !.client = c, !.connectedTo = 0,
                      !.before = <<server.client, server.isInitialized,
                                   server.initPromise>>]
                 /\ handlers' = [handlers EXCEPT ![t] = h]
                 /\ tasks' = [tasks EXCEPT ![t] =
                      jmapRequest(new, [IdleTask EXCEPT !.op = "getMailboxes", !.cl = c],
                                  "mailboxes", MailboxGetCalls(new))]
  /\ UNCHANGED <<srvEmails, srvSubs, srvMail>>

(* a CallTool request naming no tool of the server arrives *)
CallUnknown(t) ==
  /\ Quiet
  /\ t = CommandTask
  /\ handlers[t].pc = "idle"
  /\ handlers' = [handlers EXCEPT ![t] =
       FailureReply(HandlerOf("bogus", Undefined, "running", "none", <<>>),
                    <<"Unknown tool: ", "bogus">>)]
  /\ UNCHANGED <<clients, tasks, srvEmails, srvSubs, srvMail, server>>

(* the client method called by initializeFromEnv or by a handler has settled
   and its caller goes on *)
Resume(t) ==
  /\ tasks[t].pc = "done"
  /\ handlers[t].pc = "running"
  /\ LET tk == tasks[t]
         h == handlers[t]
     IN CASE h.tool = "init" ->
               /\ server' = IF tk.out = "ok"
                              THEN [server EXCEPT !.isInitialized = TRUE,
                                      !.initPromise = "resolved", !.auto = "ok"]
                              ELSE [server EXCEPT !.client = 0, !.isInitialized = FALSE,
                                      !.initPromise = "resolved", !.auto = "failed"]
               /\ handlers' = [handlers EXCEPT ![t] = NoHandler]
          [] h.tool = "connect_jmap" ->
               IF tk.out = "ok"
                 THEN /\ server' = [server EXCEPT !.isInitialized = TRUE,
                           !.everConnected = TRUE, !.connectedTo = tk.cl]
                      /\ handlers' = [handlers EXCEPT ![t] =
                           Replied(h, "result", ConnectedText(h.args))]
                 ELSE /\ UNCHANGED server
                      /\ handlers' = [handlers EXCEPT ![t] = FailureReply(h, tk.msg)]
          [] OTHER ->
               /\ UNCHANGED server
               /\ handlers' = [handlers EXCEPT ![t] =
                    IF tk.out = "ok" THEN Replied(h, "result", ResultText(tk))
                    ELSE FailureReply(h, tk.msg)]
  /\ tasks' = [tasks EXCEPT ![t] = IdleTask]
  /\ UNCHANGED <<clients, srvEmails, srvSubs, srvMail>>

(* the response has been sent to the protocol caller *)
Ack(t) ==
  /\ handlers[t].pc = "replied"
  /\ handlers' = [handlers EXCEPT ![t] = NoHandler]
  /\ UNCHANGED <<clients, tasks, srvEmails, srvSubs, srvMail, server>>

-----------------------------------------------------------------------------
(* Properties of the send workflow, checked under Spec *)

HasCall(req, name) ==
  req.method = "POST" /\ \E k \in 1..Len(req.calls) : req.calls[k].name = name

CallsIn(tk, name) == {j \in 1..Len(tk.log) : HasCall(tk.log[j], name)}

Absent(s) == s = Undefined \/ s = <<>>

InvalidRequest(e) ==
  \/ e.to = NoList
  \/ e.to = <<>>
  \/ Absent(e.subject)
  \/ Absent(e.textBody) /\ Absent(e.htmlBody)

ValidationMessages ==
  { <<"Recipients (to field) are required">>,
    <<"Subject is required">>,
    <<"Either textBody or htmlBody is required">> }

(* C1: a send request with no recipients, no subject or no body fails with a
   validation error, and the invocation issues no network call at all. *)
C1_ValidationBeforeNetwork ==
  \A t \in DOMAIN tasks :
    (tasks[t].op = "sendEmail" /\ InvalidRequest(tasks[t].email)) =>
      /\ tasks[t].pc = "done"
      /\ tasks[t].out = "err"
      /\ tasks[t].msg \in ValidationMessages
      /\ tasks[t].log = <<>>

C1_Witness ==
  \E t \in DOMAIN tasks :
    /\ tasks[t].op = "sendEmail"
    /\ tasks[t].email.to = <<Good>>
    /\ tasks[t].email.subject = <<>>
    /\ tasks[t].email.htmlBody = <<"<p>">>
    /\ tasks[t].pc = "done"
    /\ clients[tasks[t].cl].mailboxCache = <<>>

(* C2: EmailSubmission/set is issued only after the Email/set of the same run
   has returned a created entry for the draft; when the response reports the
   draft as not created, or has no created entry, sendEmail fails and the run
   issues no EmailSubmission/set. *)
C2_SubmitOnlyAfterCreated ==
  \A t \in DOMAIN tasks :
    LET tk == tasks[t]
    IN tk.op = "sendEmail" =>
         /\ \A j \in CallsIn(tk, "EmailSubmission/set") :
              /\ \E i \in CallsIn(tk, "Email/set") : i < j
              /\ tk.createResult # <<>>
              /\ tk.createResult[1].created # <<>>
              /\ tk.createResult[1].notCreated = <<>>
         /\ ( /\ tk.createResult # <<>>
              /\ (tk.createResult[1].notCreated # <<>> \/ tk.createResult[1].created = <<>>) )
            => /\ tk.pc = "done"
               /\ tk.out = "err"
               /\ CallsIn(tk, "EmailSubmission/set") = {}

C2_Witness ==
  \E t \in DOMAIN tasks :
    /\ tasks[t].op = "sendEmail"
    /\ tasks[t].createResult = <<MissingResult>>
    /\ tasks[t].pc = "done"

(* C3: when the draft was created and the submission then fails, the run
   issues no further request, none of its requests destroys or updates an
   email, and the draft is on the server with its $draft keyword. *)
C3_NoRollbackOfDraft ==
  \A t \in DOMAIN tasks :
    LET tk == tasks[t]
    IN ( /\ tk.op = "sendEmail"
         /\ tk.pc = "done"
         /\ tk.out = "err"
         /\ CallsIn(tk, "EmailSubmission/set") # {} )
       => /\ HasCall(tk.log[Len(tk.log)], "EmailSubmission/set")
          /\ Cardinality(CallsIn(tk, "EmailSubmission/set")) = 1
          /\ Cardinality(CallsIn(tk, "Email/set")) = 1
          /\ \A j \in CallsIn(tk, "Email/set") :
               DOMAIN tk.log[j].calls[1].params = {"create"}
          /\ \E e \in srvEmails : e.id = tk.draftId /\ "$draft" \in e.keywords

C3_Witness ==
  \E t \in DOMAIN tasks :
    /\ tasks[t].op = "sendEmail"
    /\ tasks[t].pc = "done"
    /\ tasks[t].out = "err"
    /\ tasks[t].submitResult # <<>>
    /\ tasks[t].submitResult[1].notCreated # <<>>
    /\ tasks[t].submitResult[1].notCreated[1].type = <<"invalidRecipients">>
    /\ tasks[t].draftId = <<"D", "1">>

ReportedTypes(tk) ==
  { r[1].notCreated[1].type :
      r \in {x \in {tk.createResult, tk.submitResult} : x # <<>> /\ x[1].notCreated # <<>>} }

(* C4: the error with which sendEmail fails embeds every error type that the
   server reported in the not-created entry of the draft or the submission. *)
C4_ErrorEmbedsType ==
  \A t \in DOMAIN tasks :
    LET tk == tasks[t]
    IN (tk.op = "sendEmail" /\ tk.pc = "done") =>
         \A type \in ReportedTypes(tk) :
           Truthy(type) => tk.out = "err" /\ Includes(tk.msg, type)

LacksAt(a) == ~Includes(a, <<"@">>)

(* C5: when the request has passed validation and the draft exists, any address
   among sender, to, cc and bcc that lacks an "@" makes sendEmail fail with the
   address-format error naming such an address, and no EmailSubmission/set is
   issued. *)
C5_AddressFormatError ==
  \A t \in DOMAIN tasks :
    LET tk == tasks[t]
        all == <<tk.fromEmail>> \o OrEmpty(tk.email.to) \o OrEmpty(tk.email.cc)
                 \o OrEmpty(tk.email.bcc)
        bad == {i \in 1..Len(all) : LacksAt(all[i])}
    IN (tk.op = "sendEmail" /\ Truthy(tk.draftId) /\ bad # {}) =>
         /\ tk.pc = "done"
         /\ tk.out = "err"
         /\ \E i \in bad : tk.msg = InvalidAddress(all[i])
         /\ CallsIn(tk, "EmailSubmission/set") = {}

-----------------------------------------------------------------------------
(* Properties of session establishment and of the batch request executor *)

Supplied(x) == x # Undefined /\ x # <<>>

(* C6: the account identifier of a session established from a discovery
   document is the configured override when one is supplied, else the
   document's primary account for mail when present, else the first key of
   its accounts map.  Checked under SpecSession. *)
C6_AccountIdPrecedence ==
  \A t \in DOMAIN tasks :
    LET tk == tasks[t]
        override == clients[tk.cl].config.accountId
    IN tk.gotSession # <<>> =>
         LET doc == tk.doc[1]
             id == tk.gotSession[1].accountId
         IN /\ Supplied(override) => id = override
            /\ (~Supplied(override) /\ Supplied(doc.primary)) => id = doc.primary
            /\ (~Supplied(override) /\ ~Supplied(doc.primary) /\ doc.accounts # <<>>)
                 => id = doc.accounts[1]
            /\ tk.gotSession[1].apiUrl = doc.apiUrl

C6_Witness ==
  \E t \in DOMAIN tasks :
    /\ tasks[t].gotSession # <<>>
    /\ clients[tasks[t].cl].config.accountId = <<>>
    /\ tasks[t].doc[1].primary = Undefined
    /\ tasks[t].doc[1].accounts = <<<<"acc2">>, <<"acc1">>>>
    /\ tasks[t].gotSession[1].accountId = <<"acc2">>

(* what one step does to task t *)
NewRequests(t) ==
  IF tasks[t].pc = "idle" THEN tasks'[t].log
  ELSE SubSeq(tasks'[t].log, Len(tasks[t].log) + 1, Len(tasks'[t].log))

(* in this step a method is invoked as task t *)
Invoked(t) == tasks[t].pc = "idle" /\ tasks'[t].pc # "idle"

(* C7: an operation invoked on a client that has an established session issues
   no discovery request and leaves the session and the stored auth token as
   they are, and each batch it posts goes to the session's API endpoint with
   the stored token.  Checked under SpecOverlap. *)
C7_SessionReused ==
  [][ \A t \in DOMAIN tasks :
        (tasks'[t].hadSession /\ tasks'[t] # tasks[t]) =>
          LET cl == tasks'[t].cl
          IN /\ clients'[cl].session = clients[cl].session
             /\ clients'[cl].authToken = clients[cl].authToken
             /\ \A j \in 1..Len(NewRequests(t)) :
                  /\ NewRequests(t)[j].method = "POST"
                  /\ NewRequests(t)[j].url = clients[cl].session[1].apiUrl
                  /\ NewRequests(t)[j].auth = clients[cl].authToken ]_vars

C7_Witness ==
  \E t \in DOMAIN tasks :
    /\ tasks[t].hadSession
    /\ tasks[t].op = "getEmails"
    /\ tasks[t].pc = "done"
    /\ tasks[t].out = "err"
    /\ Len(tasks[t].log) = 2

(* C8: when the batch POST is answered with a non-success status, jmapRequest
   fails with an error carrying the status and the response body, the run has
   posted that batch exactly once and sends nothing after it, and the client's
   session, token and mailbox cache are as they were.  Checked under Spec. *)
C8_NoRetryOnHttpFailure ==
  [][ \A t \in DOMAIN tasks :
        LET old == tasks[t]
            new == tasks'[t]
        IN (old.pc = "POST" /\ new.resp # NoResp /\ ~IsReject(new.resp)) =>
             /\ new.pc = "done"
             /\ new.out = "err"
             /\ Includes(new.reqErr, StatusStr(new.resp.status))
             /\ Includes(new.reqErr, new.resp.body)
             /\ ~InSendTry(new) => new.msg = new.reqErr
             /\ new.log = old.log
             /\ Cardinality({j \in 1..Len(new.log) :
                  new.log[j].method = "POST" /\ new.log[j].calls = new.calls}) = 1
             /\ clients' = clients ]_vars

C8_Witness ==
  \E t \in DOMAIN tasks :
    /\ tasks[t].op = "getEmails"
    /\ tasks[t].phase = "query"
    /\ tasks[t].pc = "done"
    /\ tasks[t].resp = [status |-> 500, body |-> <<"oops">>]
    /\ clients[tasks[t].cl].mailboxCache # <<>>

(* C9: when the primary discovery request is answered with a non-success
   status, session establishment fails with an error carrying that status and
   body whatever becomes of the alternative probes, and neither a token nor a
   session is stored and no batch is posted. *)
C9_PrimaryErrorReported ==
  \A t \in DOMAIN tasks :
    LET tk == tasks[t]
    IN (tk.authFail # NoResp /\ tk.pc = "done") =>
         /\ tk.out = "err"
         /\ Includes(tk.msg, StatusStr(tk.authFail.status))
         /\ Includes(tk.msg, tk.authFail.body)
         /\ clients[tk.cl].authToken = Undefined
         /\ clients[tk.cl].session = <<>>
         /\ \A j \in 1..Len(tk.log) : tk.log[j].method = "GET"

-----------------------------------------------------------------------------
(* Properties of mailbox name resolution, checked under SpecFind *)

First(S) == IF S = {} THEN 0 ELSE CHOOSE i \in S : \A j \in S : i <= j

(* the mailbox the three strategies choose for a key, by position *)
Chosen(cache, key) ==
  LET exact == {i \in 1..Len(cache) : ToLowerCase(cache[i].name) = key}
      partial == {i \in 1..Len(cache) : Includes(ToLowerCase(cache[i].name), key)}
      byRole == {i \in 1..Len(cache) : Truthy(RoleMap(key)) /\ cache[i].role = RoleMap(key)}
      pick == IF exact # {} THEN exact ELSE IF partial # {} THEN partial ELSE byRole
  IN IF pick = {} THEN Undefined ELSE cache[First(pick)].id

(* C10 as stated: the label is compared as given, ignoring case only. *)
C10_ResolutionAsStated ==
  \A t \in DOMAIN tasks :
    tasks[t].resolved =>
      tasks[t].found = Chosen(tasks[t].cacheSeen, ToLowerCase(tasks[t].mailboxId))

(* C10: findMailboxByName returns the first cached mailbox whose name equals
   the label, else the first whose name contains it, else the first whose role
   the role table maps the label to, else null; names and label are compared
   in lower case and the label without its leading and trailing whitespace. *)
C10_ResolutionTrimmed ==
  \A t \in DOMAIN tasks :
    tasks[t].resolved =>
      tasks[t].found = Chosen(tasks[t].cacheSeen, Trim(ToLowerCase(tasks[t].mailboxId)))

C10_Witness ==
  \E t \in DOMAIN tasks :
    /\ tasks[t].resolved
    /\ tasks[t].mailboxId = <<"In", "box">>
    /\ Len(tasks[t].cacheSeen) = 2
    /\ tasks[t].cacheSeen[1] = MbOldInbox
    /\ tasks[t].cacheSeen[2] = MbInbox
    /\ tasks[t].found = MbInbox.id

-----------------------------------------------------------------------------
(* Properties of getEmails, checked under SpecFind *)

QueryFilters(tk) ==
  {tk.log[j].calls[1].params.filter : j \in CallsIn(tk, "Email/query")}

(* C11: when getEmails resolves its label to identifier X, the one Email/query
   it issues carries the filter inMailbox = X, and that is the mailbox it
   reports as used ("Inbox" resolves to M1 in a cache holding only Inbox);
   when the label resolves to nothing, getEmails fails with an error naming
   the label and listing the cached mailbox names and issues no Email/query. *)
C11_QueryFilteredByResolved ==
  \A t \in DOMAIN tasks :
    LET tk == tasks[t]
    IN (tk.op = "getEmails" /\ tk.resolved) =>
         /\ (tk.cacheSeen = <<MbInbox>> /\ tk.mailboxId = <<"In", "box">>)
              => tk.found = <<"M", "1">>
         /\ IF tk.found # Undefined
              THEN /\ Cardinality(CallsIn(tk, "Email/query")) = 1
                   /\ QueryFilters(tk) = {[inMailbox |-> tk.found]}
                   /\ tk.out = "ok" => tk.ret.mailboxUsed = tk.found
              ELSE /\ tk.pc = "done"
                   /\ tk.out = "err"
                   /\ Includes(tk.msg, tk.mailboxId)
                   /\ Includes(tk.msg, Join(MailboxNames(tk.cacheSeen), <<", ">>))
                   /\ CallsIn(tk, "Email/query") = {}

C11_Witness ==
  \E t \in DOMAIN tasks :
    /\ tasks[t].op = "getEmails"
    /\ tasks[t].mailboxId = <<"In", "box">>
    /\ tasks[t].cacheSeen = <<MbInbox>>
    /\ tasks[t].out = "ok"
    /\ tasks[t].ret.mailboxUsed = <<"M", "1">>
    /\ QueryFilters(tasks[t]) = {[inMailbox |-> <<"M", "1">>]}

(* C12: when getEmails is called with the identifier of a mailbox of the
   cache, the Email/query it issues carries inMailbox equal to that
   identifier. *)
C12_IdentifierQueried ==
  \A t \in DOMAIN tasks :
    LET tk == tasks[t]
    IN (/\ tk.op = "getEmails"
        /\ tk.resolved
        /\ \E i \in 1..Len(tk.cacheSeen) : tk.cacheSeen[i].id = tk.mailboxId) =>
         /\ CallsIn(tk, "Email/query") # {}
         /\ QueryFilters(tk) = {[inMailbox |-> tk.mailboxId]}

-----------------------------------------------------------------------------
(* Properties of the server's connection state and dispatcher, checked under
   SpecServer *)

(* the startup auto-connect or some connect_jmap has succeeded *)
Established(srv) == srv.auto = "ok" \/ srv.everConnected

(* in this step the handler of request t passes ensureInitialized and makes
   its test of the connection *)
Evaluated(t) ==
  /\ handlers[t].pc \in {"idle", "waitInit"}
  /\ handlers'[t].pc \notin {"idle", "waitInit"}
  /\ handlers'[t].tool \in Tools

(* C13: while neither the startup auto-connect nor any connect_jmap has
   succeeded, a command that is evaluated is answered with the not-connected
   text as an ordinary result, calls no client method and sends no request. *)
C13_NotConnectedResult ==
  [][ \A t \in DOMAIN handlers :
        (Evaluated(t) /\ ~Established(server)) =>
          /\ handlers'[t].pc = "replied"
          /\ handlers'[t].reply = "notConnected"
          /\ handlers'[t].text = NotConnectedText
          /\ tasks' = tasks
          /\ tasks[t] = IdleTask
          /\ clients' = clients ]_vars

(* a command answered not-connected while a connect_jmap is still in flight
   after the auto-connect failed *)
C13_Witness ==
  /\ server.auto = "failed"
  /\ server.client # 0
  /\ handlers[ConnectTask].pc = "running"
  /\ handlers[CommandTask].reply = "notConnected"

(* C14: once connect_jmap has returned success and the startup initialization
   has finished, a mail command that arrives is executed against the connected
   client and is not answered with the not-connected result. *)
C14_ConnectedAfterConnect ==
  [][ \A t \in DOMAIN handlers :
        (/\ handlers[t].pc = "idle"
         /\ Evaluated(t)
         /\ server.connectedTo # 0
         /\ server.initPromise = "resolved") =>
          /\ handlers'[t].reply # "notConnected"
          /\ handlers'[t].pc = "running"
          /\ tasks'[t].cl = server.connectedTo ]_vars

(* what C15 says of a command that arrives during the startup auto-connect,
   with the client it runs against left open *)
EarlyCommand(t, against) ==
  /\ (handlers[t].pc = "idle" /\ handlers'[t].tool \in Tools
        /\ handlers'[t] # handlers[t] /\ server.initPromise = "pending") =>
       /\ handlers'[t].pc = "waitInit"
       /\ tasks' = tasks
  /\ (handlers[t].pc = "waitInit" /\ handlers'[t] # handlers[t]) =>
       /\ server.initPromise = "resolved"
       /\ server.auto = "ok" =>
            /\ handlers'[t].pc = "running"
            /\ handlers'[t].reply = "none"
            /\ tasks'[t].cl = against

(* C15 as stated: the command runs against the auto-connected client. *)
C15_AgainstAutoConnected ==
  [][ \A t \in DOMAIN handlers : EarlyCommand(t, 1) ]_vars

(* C15: a command that arrives while the startup auto-connect is in progress
   is not evaluated before initPromise has resolved; if the auto-connect
   succeeded it is then executed, never answered not-connected, against the
   server's current client: the auto-connected one unless a connect_jmap has
   replaced it in the meantime. *)
C15_WaitsForInit ==
  [][ \A t \in DOMAIN handlers :
        /\ EarlyCommand(t, server.client)
        /\ (handlers[t].pc = "waitInit" /\ handlers'[t] # handlers[t]
              /\ server.auto = "ok" /\ Len(clients) = 1) => tasks'[t].cl = 1 ]_vars

(* the auto-connect has just succeeded and a command that arrived during it
   is about to go on *)
C15_Witness ==
  /\ server.auto = "ok"
  /\ server.initPromise = "resolved"
  /\ server.client = 1
  /\ handlers[CommandTask].pc = "waitInit"
  /\ tasks[CommandTask] = IdleTask

(* C16: a failure raised while a command (connect_jmap included) executes is
   answered with one internal-error response whose text is "Tool execution
   failed: " followed by the failure's message; a response is an internal
   error only if a failure was raised, and a response once sent is final. *)
C16_FailuresWrapped ==
  [][ \A t \in DOMAIN handlers :
        LET h == handlers[t]
            g == handlers'[t]
        IN /\ (tasks[t].pc = "done" /\ h.pc = "running" /\ h.tool # "init" /\ g # h) =>
                /\ g.pc = "replied"
                /\ IF tasks[t].out = "err"
                     THEN /\ g.reply = "internalError"
                          /\ g.text = <<"Tool execution failed: ">> \o tasks[t].msg
                     ELSE g.reply = "result"
           /\ (g.reply = "internalError" /\ h.reply # "internalError") =>
                \/ tasks[t].pc = "done" /\ tasks[t].out = "err"
                \/ g.tool = "bogus" /\ Includes(g.text, <<"Unknown tool: ", "bogus">>)
                \/ g.tool = "connect_jmap" /\ g.args = Undefined
                     /\ Includes(g.text, DestructureError)
           /\ (h.pc = "replied" /\ g # h) => g = NoHandler ]_vars

C16_Witness ==
  \E t \in DOMAIN handlers :
    /\ handlers[t].tool = "connect_jmap"
    /\ handlers[t].reply = "internalError"
    /\ handlers[t].text = <<"Tool execution failed: ", "Authentication failed: ">> \o NetErr

-----------------------------------------------------------------------------
(* Properties of the flag operations, checked under SpecFlags *)

Seen(mail, e) == "$seen" \in mail[e].keywords

(* C17: when markAsRead is issued twice in succession for the same
   identifiers, each call sends one Email/set whose update sets the seen flag
   on each identifier, the second call does not raise, and every targeted
   email has the same seen flag after the second call as after the first. *)
C17_MarkReadIdempotent ==
  (/\ tasks[1].op = "markAsRead"
   /\ tasks[1].pc = "done"
   /\ tasks[1].out = "ok"
   /\ tasks[2].pc = "done"
   /\ tasks[2].setResult # <<>>) =>
    /\ tasks[2].out = "ok"
    /\ \A t \in {1, 2} :
         /\ Cardinality(CallsIn(tasks[t], "Email/set")) = 1
         /\ Len(tasks[t].calls) = 1
         /\ tasks[t].calls[1].params.update =
              [id \in Range(tasks[1].emailIds) |-> Patch("keywords/$seen", "true")]
    /\ \A e \in Range(tasks[1].emailIds) \cap DOMAIN srvMail :
         Seen(tasks[2].mailAfter[1], e) = Seen(tasks[1].mailAfter[1], e)

(* C18: deleteEmails issues one Email/set call that carries nothing but an
   update map with one entry per target identifier, each setting the deleted
   keyword only; the emails it names still exist afterwards, in the mailboxes
   they were in. *)
C18_DeleteSetsFlagOnly ==
  \A t \in DOMAIN tasks :
    LET tk == tasks[t]
    IN tk.op = "deleteEmails" =>
         /\ Len(tk.calls) = 1
         /\ tk.calls[1].name = "Email/set"
         /\ DOMAIN tk.calls[1].params = {"update"}
         /\ DOMAIN tk.calls[1].params.update = Range(tk.emailIds)
         /\ \A id \in Range(tk.emailIds) :
              tk.calls[1].params.update[id] = Patch("keywords/$deleted", "true")
         /\ Cardinality(CallsIn(tk, "Email/set")) <= 1
         /\ \A j \in 1..Len(tk.log) : tk.log[j].method = "POST" => tk.log[j].calls = tk.calls
         /\ tk.setResult # <<>> =>
              /\ Cardinality(CallsIn(tk, "Email/set")) = 1
              /\ tk.out = "ok"
              /\ DOMAIN tk.mailAfter[1] = EmailIds
              /\ \A e \in EmailIds :
                   tk.mailAfter[1][e].mailboxIds = InitialMail[e].mailboxIds

C18_Witness ==
  \E t \in DOMAIN tasks :
    /\ tasks[t].op = "deleteEmails"
    /\ tasks[t].emailIds = <<<<"E", "1">>, <<"E", "2">>>>
    /\ tasks[t].out = "ok"
    /\ tasks[t].setResult[1].updated = EmailIds
    /\ \A e \in EmailIds :
         /\ "$deleted" \in srvMail[e].keywords
         /\ srvMail[e].mailboxIds = {<<"M", "1">>}

(* C19: after a successful deleteEmails, every email it updated is in the
   trash mailbox and no longer in the mailbox it was in. *)
C19_DeleteMovesToTrash ==
  \A t \in DOMAIN tasks :
    LET tk == tasks[t]
    IN (tk.op = "deleteEmails" /\ tk.out = "ok" /\ tk.setResult # <<>>) =>
         \A e \in tk.setResult[1].updated : tk.mailAfter[1][e].mailboxIds = {TrashId}

-----------------------------------------------------------------------------
(* Properties of the error handling of sendEmail, checked under Spec *)

Mentions(m, words) == \E w \in words : Includes(m, w)

EndpointNotFound ==
  <<"Email service endpoint ", "not", " ", "found",
    ". Please check your JMAP server configuration.">>

(* the message the caller of sendEmail is to get for an error raised in the
   draft-creation or submission step *)
Classified(m) ==
  CASE Mentions(m, {<<"not", " ", "found">>, <<"404">>}) -> EndpointNotFound
    [] ~Mentions(m, {<<"not", " ", "found">>, <<"404">>})
         /\ Mentions(m, {<<"unauthorized">>, <<"401">>}) ->
         <<"Authentication failed. Please check your credentials.">>
    [] ~Mentions(m, {<<"not", " ", "found">>, <<"404">>, <<"unauthorized">>, <<"401">>})
         /\ Mentions(m, {<<"forbidden">>, <<"403">>}) ->
         <<"Insufficient permissions to send email. Please check your account permissions.">>
    [] OTHER -> m

(* C20: an error raised in the draft-creation or submission step of sendEmail
   reaches the caller re-classified by its message: "not found" or "404"
   first, else "unauthorized" or "401", else "forbidden" or "403", else
   unchanged; an error raised before draft creation reaches the caller
   unchanged. *)
C20_ReclassifiedByPrecedence ==
  \A t \in DOMAIN tasks :
    LET tk == tasks[t]
    IN (tk.op = "sendEmail" /\ tk.pc = "done" /\ tk.out = "err") =>
         IF CallsIn(tk, "Email/set") # {}
           THEN tk.msg = Classified(tk.raised)
           ELSE tk.msg = tk.raised

(* a rejection that mentions both "forbidden" and "not found" *)
C20_Witness ==
  \E t \in DOMAIN tasks :
    /\ tasks[t].op = "sendEmail"
    /\ tasks[t].out = "err"
    /\ Includes(tasks[t].raised, <<"forbidden">>)
    /\ Includes(tasks[t].raised, <<"not", " ", "found">>)
    /\ tasks[t].msg = EndpointNotFound

-----------------------------------------------------------------------------
(* Properties of the draft mailbox choice, checked under SpecSend *)

(* the mailbox the claim has sendEmail choose for a non-empty cache *)
DraftTarget(cache) ==
  LET byRole == {i \in 1..Len(cache) : cache[i].role = <<"drafts">>}
      byName == {i \in 1..Len(cache) : Includes(ToLowerCase(cache[i].name), <<"draft">>)}
      writable == {i \in 1..Len(cache) :
                     \/ cache[i].role = <<"inbox">>
                     \/ /\ ~cache[i].isReadOnly
                        /\ cache[i].myRights \cap {"mayAddItems", "mayCreateChild"} # {}}
      pick == IF byRole # {} THEN byRole
              ELSE IF byName # {} THEN byName
              ELSE IF writable # {} THEN writable
              ELSE {1}
  IN cache[First(pick)].id

DraftMailboxIds(tk) ==
  {tk.log[j].calls[1].params.create.draft.mailboxIds : j \in CallsIn(tk, "Email/set")}

(* C21: with a non-empty mailbox cache sendEmail places the draft in exactly
   one mailbox: the first with role drafts, else the first whose name contains
   "draft" in any case, else the first that has role inbox or is not read-only
   and permits adding items or creating children, else the first of the cache
   (a cache holding only the writable inbox M2 gives M2); when the cache is
   still empty after the listing attempt sendEmail fails and issues no
   Email/set. *)
C21_DraftMailboxChoice ==
  \A t \in DOMAIN tasks :
    LET tk == tasks[t]
    IN (tk.op = "sendEmail" /\ ~InvalidRequest(tk.email)) =>
         /\ tk.cacheSeen # <<>> =>
              /\ Cardinality(CallsIn(tk, "Email/set")) = 1
              /\ DraftMailboxIds(tk) = {{DraftTarget(tk.cacheSeen)}}
              /\ tk.cacheSeen = <<MbInboxB>> => DraftMailboxIds(tk) = {{<<"M", "2">>}}
         /\ tk.cacheSeen = <<>> => CallsIn(tk, "Email/set") = {}
         /\ (tk.pc = "done" /\ clients[tk.cl].mailboxCache = <<>>) =>
              /\ tk.out = "err"
              /\ CallsIn(tk, "Email/set") = {}

(* the name strategy wins over a writable mailbox that comes first, and loses
   to the role strategy *)
C21_Witness ==
  \E t \in DOMAIN tasks :
    /\ tasks[t].op = "sendEmail"
    /\ tasks[t].cacheSeen = <<MbBin, MbMyDrafts, MbEntwuerfe>>
    /\ DraftMailboxIds(tasks[t]) = {{<<"M", "6">>}}
    /\ tasks[t].out = "ok"

-----------------------------------------------------------------------------
(* Properties of the submission step of sendEmail, checked under Spec *)

Submissions(tk) ==
  {tk.log[j].calls[1].params.create.send : j \in CallsIn(tk, "EmailSubmission/set")}

(* what C22 says of a successful run, for the recipient list given *)
SubmissionAsReturned(tk, rcptTo) ==
  /\ tk.createResult # <<>>
  /\ tk.createResult[1].created # <<>>
  /\ tk.submitResult # <<>>
  /\ tk.submitResult[1].created # <<>>
  /\ Cardinality(CallsIn(tk, "EmailSubmission/set")) = 1
  /\ \A send \in Submissions(tk) :
       /\ send.emailId = tk.createResult[1].created[1]
       /\ send.envelope.rcptTo = rcptTo
  /\ tk.ret.emailId = tk.createResult[1].created[1]
  /\ tk.ret.submissionId = tk.submitResult[1].created[1]
  /\ \E sub \in srvSubs :
       /\ sub.id = tk.ret.submissionId
       /\ sub.emailId = tk.ret.emailId
       /\ sub.rcptTo = rcptTo

(* C22 as stated: the envelope lists the addresses as they were given. *)
C22_SubmissionAsGiven ==
  \A t \in DOMAIN tasks :
    LET tk == tasks[t]
    IN (tk.op = "sendEmail" /\ tk.out = "ok") =>
         SubmissionAsReturned(tk, tk.email.to \o OrEmpty(tk.email.cc) \o OrEmpty(tk.email.bcc))

(* C22: in a successful run of sendEmail the submission references the
   identifier the server returned for the draft of the same run, its envelope
   lists the to, cc and bcc addresses in that order, each without its leading
   and trailing whitespace, and the result reports that draft identifier and
   the submission identifier the server returned. *)
C22_SubmissionTrimmed ==
  \A t \in DOMAIN tasks :
    LET tk == tasks[t]
        Trimmed(list) == [i \in 1..Len(list) |-> Trim(list[i])]
    IN (tk.op = "sendEmail" /\ tk.out = "ok") =>
         SubmissionAsReturned(tk, Trimmed(tk.email.to) \o Trimmed(OrEmpty(tk.email.cc))
                                    \o Trimmed(OrEmpty(tk.email.bcc)))

C22_Witness ==
  \E t \in DOMAIN tasks :
    /\ tasks[t].op = "sendEmail"
    /\ tasks[t].out = "ok"
    /\ tasks[t].email.cc = <<Spaced>>
    /\ tasks[t].email.bcc = <<Good>>
    /\ tasks[t].ret.emailId = <<"D", "2">>
    /\ tasks[t].ret.submissionId = <<"S", "1">>
    /\ \E sub \in srvSubs :
         sub.rcptTo = <<Good, <<"b", "@", "x.com">>, Good>> /\ sub.emailId = <<"D", "2">>

-----------------------------------------------------------------------------
(* Properties of the batches, checked under SpecBatch *)

HasBackRef(call) == "#ids" \in DOMAIN call.params

(* tags are unique and every back-reference points at an earlier call *)
WellFormedBatch(calls) ==
  /\ \A i, j \in 1..Len(calls) : calls[i].tag = calls[j].tag => i = j
  /\ \A k \in 1..Len(calls) :
       HasBackRef(calls[k]) =>
         LET ref == calls[k].params["#ids"]
         IN /\ DOMAIN ref = {"resultOf", "name", "path"}
            /\ ref.path = "/ids"
            /\ \E i \in 1..(k - 1) :
                 calls[i].tag = ref.resultOf /\ calls[i].name = ref.name

PairOps ==
  {"getEmails", "searchEmails", "getCalendarEvents", "getContacts", "searchContacts"}

PairPhases ==
  {"queryAll", "query", "search", "calendarEvents", "contacts", "contactSearch"}

Posts(tk) == {j \in 1..Len(tk.log) : tk.log[j].method = "POST"}

(* C23: in every batch posted by the listing of emails (of all mailboxes or of
   one), the search of emails, the listing of calendar events, the listing of
   contacts and the search of contacts, the tags of the calls are distinct and
   every back-reference names the tag and the method of an earlier call of the
   same batch with path /ids; the batch of each of these operations is a query
   followed by a get whose identifiers are such a reference, which is in the
   request as a reference and not as a list of identifiers. *)
C23_BackReferencesResolve ==
  \A t \in DOMAIN tasks :
    LET tk == tasks[t]
    IN \A j \in Posts(tk) :
         LET calls == tk.log[j].calls
         IN /\ WellFormedBatch(calls)
            /\ (tk.op \in PairOps /\ tk.phase \in PairPhases /\ calls = tk.calls) =>
                 /\ Len(calls) = 2
                 /\ ~HasBackRef(calls[1])
                 /\ HasBackRef(calls[2])
                 /\ calls[2].params["#ids"].resultOf = calls[1].tag

C23_Witness ==
  \E t \in DOMAIN tasks :
    /\ tasks[t].op = "searchEmails"
    /\ tasks[t].out = "ok"
    /\ tasks[t].resolved
    /\ Len(tasks[t].log) = 2
    /\ tasks[t].log[2].calls[2].params["#ids"] =
         [resultOf |-> "search", name |-> "Email/query", path |-> "/ids"]

-----------------------------------------------------------------------------
(* Properties of the two tests for an identifier, checked under SpecBatch *)

Alphabet ==
  { "a", "b", "c", "d", "e", "f", "g", "h", "i", "j", "k", "l", "m",
    "n", "o", "p", "q", "r", "s", "t", "u", "v", "w", "x", "y", "z" }

(* the argument is one the claim has the operation use as it is *)
Verbatim(tk) ==
  \/ tk.op = "getEmails" /\ Len(tk.mailboxId) = 1 /\ tk.mailboxId[1] \in Alphabet
  \/ tk.op = "searchEmails" /\ tk.mailboxId[1] \in {"M", "My "}

InMailboxFilters(tk) ==
  {tk.log[j].calls[1].params.filter.inMailbox : j \in CallsIn(tk, "Email/query")}

(* C25: getEmails uses a non-empty mailbox argument as it is, without name
   resolution, exactly when it is a single lowercase letter, and searchEmails
   exactly when it starts with the capital letter M; every other non-empty
   argument goes through findMailboxByName, the query is filtered by what it
   returns, and when it returns nothing the operation fails without a
   query. *)
C25_IdentifierHeuristics ==
  \A t \in DOMAIN tasks :
    LET tk == tasks[t]
    IN (tk.op \in {"getEmails", "searchEmails"} /\ tk.mailboxId # Undefined
          /\ tk.mailboxId # <<>>) =>
         IF Verbatim(tk)
           THEN /\ ~tk.resolved
                /\ CallsIn(tk, "Mailbox/get") = {}
                /\ tk.calls[1].name = "Email/query"
                /\ tk.calls[1].params.filter.inMailbox = tk.mailboxId
                /\ InMailboxFilters(tk) \subseteq {tk.mailboxId}
                /\ tk.out = "ok" => tk.ret.mailboxUsed = tk.mailboxId
           ELSE /\ tk.resolved =>
                     tk.found = Chosen(tk.cacheSeen, Trim(ToLowerCase(tk.mailboxId)))
                /\ (tk.resolved /\ tk.found = Undefined) =>
                     /\ tk.pc = "done"
                     /\ tk.out = "err"
                     /\ CallsIn(tk, "Email/query") = {}
                /\ CallsIn(tk, "Email/query") # {} =>
                     /\ tk.resolved
                     /\ InMailboxFilters(tk) = {tk.found}
                /\ tk.out = "ok" => tk.resolved /\ tk.ret.mailboxUsed = tk.found

(* a mailbox name that starts with M is sent as the filter by searchEmails
   without having been resolved *)
C25_Witness ==
  \E t \in DOMAIN tasks :
    /\ tasks[t].op = "searchEmails"
    /\ tasks[t].mailboxId = <<"My ", "Draft", "s">>
    /\ tasks[t].out = "ok"
    /\ tasks[t].ret.mailboxUsed = <<"My ", "Draft", "s">>
    /\ clients[1].mailboxCache = <<MbInbox>>

-----------------------------------------------------------------------------
(* Properties of the account identifier in the batches, checked under
   SpecServer *)

(* C26: every method call of every batch a client has posted carries the
   account identifier of the client's session, the first batch of a client
   whose session is established in the course of that request included. *)
C26_CallsCarryAccountId ==
  \A t \in DOMAIN tasks :
    LET tk == tasks[t]
    IN \A j \in Posts(tk) :
         /\ clients[tk.cl].session # <<>>
         /\ \A k \in 1..Len(tk.log[j].calls) :
              tk.log[j].calls[k].accountId = clients[tk.cl].session[1].accountId

-----------------------------------------------------------------------------
(* Properties of connect_jmap, checked under SpecServer *)

(* in this step the connect_jmap request t is answered with a failure *)
ConnectFails(t) ==
  /\ handlers[t].pc # "replied"
  /\ handlers'[t].pc = "replied"
  /\ handlers'[t].tool = "connect_jmap"
  /\ handlers'[t].reply = "internalError"

(* C27: when a connect_jmap that began after the startup initialization had
   finished fails, the server's client and its initialized flag are what they
   were before the attempt, and a command that arrives next is served by the
   client that was in use before. *)
C27_FailedConnectChangesNothing ==
  [][ \A t \in DOMAIN handlers :
        /\ (ConnectFails(t) /\ handlers[t].pc = "idle") =>
             /\ server'.client = server.client
             /\ server'.isInitialized = server.isInitialized
        /\ (ConnectFails(t) /\ handlers[t].pc = "running"
              /\ server.before[3] = "resolved") =>
             /\ server'.client = server.before[1]
             /\ server'.isInitialized = server.before[2] ]_vars

-----------------------------------------------------------------------------
(* Properties of the address check of sendEmail, checked under Spec *)

(* the run was ended by the address check *)
AddressCheckFailed(tk) ==
  /\ tk.op = "sendEmail"
  /\ tk.pc = "done"
  /\ tk.out = "err"
  /\ \E a \in Range(<<FromEmail(clients[tk.cl].config)>> \o OrEmpty(tk.email.to)
                      \o OrEmpty(tk.email.cc) \o OrEmpty(tk.email.bcc)) :
       ~Includes(a, <<"@">>) /\ tk.raised = InvalidAddress(a)

(* C28: when sendEmail fails because an address lacks "@", the run has issued
   exactly one Email/set, a create that the server accepted, that request is
   the last of the run, so that neither a destroy nor a submission follows,
   and the draft is on the server. *)
C28_AddressCheckAfterDraft ==
  \A t \in DOMAIN tasks :
    LET tk == tasks[t]
    IN AddressCheckFailed(tk) =>
         /\ Cardinality(CallsIn(tk, "Email/set")) = 1
         /\ HasCall(tk.log[Len(tk.log)], "Email/set")
         /\ DOMAIN tk.log[Len(tk.log)].calls[1].params = {"create"}
         /\ CallsIn(tk, "EmailSubmission/set") = {}
         /\ tk.createResult # <<>>
         /\ tk.createResult[1].notCreated = <<>>
         /\ tk.createResult[1].created # <<>>
         /\ \E e \in srvEmails :
              e.id = tk.createResult[1].created[1] /\ "$draft" \in e.keywords

(* the address is the second recipient, and the error reaches the caller
   re-worded *)
C28_Witness ==
  \E t \in DOMAIN tasks :
    /\ AddressCheckFailed(tasks[t])
    /\ tasks[t].raised = InvalidAddress(NoAt404)
    /\ tasks[t].msg = EndpointNotFound
    /\ tasks[t].draftId = <<"D", "1">>
    /\ \E e \in srvEmails : e.id = <<"D", "1">>

-----------------------------------------------------------------------------
(* Properties of the dispatcher's default case, checked under SpecServer *)

(* C29: a request naming a tool that the server does not have is answered
   with the method-not-found error and the text "Unknown tool: " followed by
   the name, not with the internal error of a failed execution. *)
C29_UnknownToolMethodNotFound ==
  \A t \in DOMAIN handlers :
    (handlers[t].tool \notin Tools \cup {"connect_jmap", "init", "none"}
       /\ handlers[t].pc = "replied") =>
      /\ handlers[t].reply = "methodNotFound"
      /\ handlers[t].reply # "internalError"
      /\ handlers[t].text = <<"Unknown tool: ", handlers[t].tool>>

-----------------------------------------------------------------------------
(* Properties of the replacement of the client, checked under SpecServer *)

(* the client that the latest connect_jmap has created *)
Latest == Len(clients)

(* a connect_jmap has replaced an earlier client *)
Replaced == Len(clients) >= 2

FreshClient(c) ==
  /\ c.session = <<>>
  /\ c.authToken = Undefined
  /\ c.mailboxCache = <<>>

(* the requests that task t sends in this step are those of client c *)
SendsAs(t, c) ==
  \A j \in 1..Len(NewRequests(t)) :
    LET req == NewRequests(t)[j]
    IN /\ req.auth = Credentials(clients'[c].config)
       /\ req.method = "POST" => req.url = clients'[c].session[1].apiUrl

(* in this step findMailboxByName returns to task t *)
Resolves(t) == ~tasks[t].resolved /\ tasks'[t].resolved

(* a replacement creates a client without session, token and cache, and a
   mailbox cache is only ever filled from a listing that was fetched with the
   credentials of the client it belongs to *)
ClientsApart ==
  /\ Len(clients') > Len(clients) => FreshClient(clients'[Len(clients')])
  /\ \A c \in DOMAIN clients :
       clients'[c].mailboxCache # clients[c].mailboxCache =>
         \E t \in DOMAIN tasks :
           /\ tasks[t].cl = c
           /\ tasks[t].pc = "POST"
           /\ LET req == tasks[t].log[Len(tasks[t].log)]
              IN HasCall(req, "Mailbox/get") /\ req.auth = Credentials(clients[c].config)

(* C30 as stated: once a client has been replaced, every request sent and
   every name resolved is the new client's. *)
C30_NothingOfPreviousUsed ==
  [][ /\ ClientsApart
      /\ Replaced =>
           \A t \in DOMAIN tasks :
             /\ SendsAs(t, Latest)
             /\ Resolves(t) =>
                  /\ tasks'[t].cl = Latest
                  /\ tasks'[t].cacheSeen = clients'[Latest].mailboxCache ]_vars

(* C30: the client that connect_jmap installs starts with no session, no auth
   token and an empty mailbox cache, and every command that is executed after
   the replacement runs on the new client: its names are resolved against the
   new client's cache, which is filled only from listings fetched with the new
   credentials, and its requests carry the new credentials and go to the new
   session's endpoint.  An operation of the previous client that is under way
   at the replacement goes on with the previous client's credentials,
   endpoint and cache. *)
C30_NewCommandsUseNewClient ==
  [][ /\ ClientsApart
      /\ \A t \in DOMAIN tasks :
           /\ (Replaced /\ Invoked(t) /\ handlers'[t].tool \in Tools) =>
                tasks'[t].cl = Latest
           /\ tasks'[t].pc # "idle" =>
                /\ SendsAs(t, tasks'[t].cl)
                /\ Resolves(t) => tasks'[t].cacheSeen = clients'[tasks'[t].cl].mailboxCache
           /\ (tasks[t].pc # "idle" /\ tasks'[t].pc # "idle") =>
                tasks'[t].cl = tasks[t].cl ]_vars

(* a command of the second user resolves a name on the new client while the
   first user's client keeps its cache *)
C30_Witness ==
  /\ Replaced
  /\ clients[1].config # clients[2].config
  /\ clients[1].mailboxCache # <<>>
  /\ tasks[CommandTask].cl = 2
  /\ tasks[CommandTask].resolved
  /\ tasks[CommandTask].cacheSeen = clients[2].mailboxCache
  /\ tasks[CommandTask].cacheSeen # <<>>

-----------------------------------------------------------------------------
(* Properties of the mailbox cache, checked under SpecCache *)

ListingPhases == {"findMailboxes", "searchMailboxes", "sendMailboxes"}

(* the invocation calls findMailboxByName *)
Resolving(tk) ==
  \/ tk.op = "getEmails" /\ Truthy(tk.mailboxId) /\ ~IsSingleLowerLetter(tk.mailboxId)
  \/ tk.op = "searchEmails" /\ Truthy(tk.mailboxId) /\ ~StartsWithM(tk.mailboxId)

(* what C24 says of one step, for the invocations that UsesCache holds of:
   they call the mailbox listing exactly when the cache is empty at the time
   they are invoked, and otherwise work on the cache as it is; and the cache
   changes only when a mailbox listing is answered *)
LazyListing(UsesCache(_)) ==
  /\ \A t \in DOMAIN tasks :
       /\ (Invoked(t) /\ UsesCache(tasks'[t])) =>
            LET cache == clients[tasks'[t].cl].mailboxCache
            IN IF cache = <<>>
                 THEN /\ tasks'[t].phase \in ListingPhases
                      /\ tasks'[t].calls = MailboxGetCalls(clients[tasks'[t].cl])
                 ELSE /\ tasks'[t].phase \notin ListingPhases
                      /\ tasks'[t].cacheSeen = cache
                      /\ CallsIn(tasks'[t], "Mailbox/get") = {}
       /\ (tasks[t].pc # "idle" /\ UsesCache(tasks[t])
             /\ tasks[t].phase \notin ListingPhases) =>
            /\ tasks'[t].phase \notin ListingPhases
            /\ CallsIn(tasks'[t], "Mailbox/get") = CallsIn(tasks[t], "Mailbox/get")
                 \/ tasks'[t].pc = "idle"
  /\ \A c \in DOMAIN clients :
       clients'[c].mailboxCache # clients[c].mailboxCache =>
         \E t \in DOMAIN tasks :
           /\ tasks[t].cl = c
           /\ tasks[t].pc = "POST"
           /\ HasCall(tasks[t].log[Len(tasks[t].log)], "Mailbox/get")
           /\ tasks'[t].resp = NoResp

AnySendOrResolving(tk) == Resolving(tk) \/ tk.op = "sendEmail"

ValidSendOrResolving(tk) ==
  Resolving(tk) \/ (tk.op = "sendEmail" /\ ~InvalidRequest(tk.email))

(* C24 as stated: every invocation of the send workflow on an empty cache
   calls the mailbox listing. *)
C24_ListsIffEmpty ==
  [][LazyListing(AnySendOrResolving)]_vars

(* C24: name resolution, and the send workflow for a request that has passed
   validation, call the mailbox listing if and only if the mailbox cache is
   empty when they are invoked; with a non-empty cache they work on the cached
   list and issue no listing, whatever the server would list by now; the cache
   is replaced only by the result of a mailbox listing. *)
C24_ListsIffEmptyOnceValid ==
  [][LazyListing(ValidSendOrResolving)]_vars

(* a label that the cached listing does not hold is reported missing and no
   listing is fetched *)
C24_Witness ==
  \E t \in DOMAIN tasks :
    /\ tasks[t].op = "searchEmails"
    /\ tasks[t].mailboxId = <<"draft">>
    /\ tasks[t].cacheSeen = <<MbInbox>>
    /\ tasks[t].out = "err"
    /\ tasks[t].log = <<>>

-----------------------------------------------------------------------------
(* Specification: operations invoked on one client, one at a time *)

TaskIds == {1}

Init ==
  /\ \E cfg \in Configs : clients = <<NewClient(cfg)>>
  /\ tasks = [t \in TaskIds |-> IdleTask]
  /\ srvEmails = {}
  /\ srvSubs = {}
  /\ srvMail = InitialMail
  /\ server = ServerOf(1, TRUE, "resolved")
  /\ handlers = [t \in TaskIds |-> NoHandler]

Next ==
  \/ \E t \in DOMAIN tasks : CallGetMailboxes(t, 1)
  \/ \E t \in DOMAIN tasks : CallGetEmails(t, 1, Labels)
  \/ \E t \in DOMAIN tasks : CallSendEmail(t, 1, SendInputs)
  \/ \E t \in DOMAIN tasks : RecvAuth(t, FailResponses)
  \/ \E t \in DOMAIN tasks : RecvAlt(t)
  \/ \E t \in DOMAIN tasks : RecvSession(t, Docs, FailResponses)
  \/ \E t \in DOMAIN tasks : RecvPostFailure(t, FailResponses)
  \/ \E t \in DOMAIN tasks : RecvMailboxes(t)
  \/ \E t \in DOMAIN tasks : RecvFindMailboxes(t, MailboxLists)
  \/ \E t \in DOMAIN tasks : RecvQuery(t)
  \/ \E t \in DOMAIN tasks : RecvSendMailboxes(t, MailboxLists)
  \/ \E t \in DOMAIN tasks : RecvCreateDraft(t)
  \/ \E t \in DOMAIN tasks : RecvSubmit(t)
  \/ \E t \in DOMAIN tasks : Return(t)

Spec == Init /\ [][Next]_vars

-----------------------------------------------------------------------------
(* Specification: session establishment for every configuration of
   ConfigsRich against every discovery document of DocsRich *)

InitSession ==
  /\ \E cfg \in ConfigsRich : clients = <<NewClient(cfg)>>
  /\ tasks = [t \in TaskIds |-> IdleTask]
  /\ srvEmails = {}
  /\ srvSubs = {}
  /\ srvMail = InitialMail
  /\ server = ServerOf(1, TRUE, "resolved")
  /\ handlers = [t \in TaskIds |-> NoHandler]

NextSession ==
  \/ \E t \in DOMAIN tasks : CallGetMailboxes(t, 1)
  \/ \E t \in DOMAIN tasks : CallGetEmails(t, 1, {Undefined})
  \/ \E t \in DOMAIN tasks : RecvAuth(t, FailResponses)
  \/ \E t \in DOMAIN tasks : RecvAlt(t)
  \/ \E t \in DOMAIN tasks : RecvSession(t, DocsRich, FailResponses)
  \/ \E t \in DOMAIN tasks : RecvPostFailure(t, FailResponses)
  \/ \E t \in DOMAIN tasks : RecvMailboxes(t)
  \/ \E t \in DOMAIN tasks : RecvQuery(t)
  \/ \E t \in DOMAIN tasks : Return(t)

SpecSession == InitSession /\ [][NextSession]_vars

-----------------------------------------------------------------------------
(* Specification: two overlapping invocations on one client *)

InitOverlap ==
  /\ \E cfg \in Configs : clients = <<NewClient(cfg)>>
  /\ tasks = [t \in {1, 2} |-> IdleTask]
  /\ srvEmails = {}
  /\ srvSubs = {}
  /\ srvMail = InitialMail
  /\ server = ServerOf(1, TRUE, "resolved")
  /\ handlers = [t \in {1, 2} |-> NoHandler]

NextOverlap ==
  \/ \E t \in DOMAIN tasks : CallGetMailboxes(t, 1)
  \/ \E t \in DOMAIN tasks : CallGetEmails(t, 1, {Undefined, <<"In", "box">>})
  \/ \E t \in DOMAIN tasks : RecvAuth(t, FewFailures)
  \/ \E t \in DOMAIN tasks : RecvAlt(t)
  \/ \E t \in DOMAIN tasks : RecvSession(t, Docs, FewFailures)
  \/ \E t \in DOMAIN tasks : RecvPostFailure(t, FewFailures)
  \/ \E t \in DOMAIN tasks : RecvMailboxes(t)
  \/ \E t \in DOMAIN tasks : RecvFindMailboxes(t, MailboxLists)
  \/ \E t \in DOMAIN tasks : RecvQuery(t)
  \/ \E t \in DOMAIN tasks : Return(t)

SpecOverlap == InitOverlap /\ [][NextOverlap]_vars

-----------------------------------------------------------------------------
(* Specification: getEmails by label against every listing of MailboxListsRich *)

NextFind ==
  \/ \E t \in DOMAIN tasks : CallGetEmails(t, 1, LabelsRich)
  \/ \E t \in DOMAIN tasks : RecvAuth(t, FewFailures)
  \/ \E t \in DOMAIN tasks : RecvAlt(t)
  \/ \E t \in DOMAIN tasks : RecvSession(t, Docs, FewFailures)
  \/ \E t \in DOMAIN tasks : RecvPostFailure(t, FewFailures)
  \/ \E t \in DOMAIN tasks : RecvFindMailboxes(t, MailboxListsRich)
  \/ \E t \in DOMAIN tasks : RecvQuery(t)
  \/ \E t \in DOMAIN tasks : Return(t)

SpecFind == Init /\ [][NextFind]_vars

-----------------------------------------------------------------------------
(* Specification: the server from its construction on, with the startup
   auto-connect, connect_jmap and two mail commands arriving in any order *)

ServerLabels == {Undefined, <<"nope">>}

ServerLists == {<<MbInbox>>}

ServerDocs == {Doc(<<"acc1">>, <<<<"acc1">>>>, <<"api1">>)}

(* new JmapMCPServer(): initializeFromEnv has run up to its first await *)
InitServer ==
  /\ \/ /\ clients = <<>>
        /\ server = ServerOf(0, FALSE, "resolved")
        /\ tasks = [t \in 1..3 |-> IdleTask]
        /\ handlers = [t \in 1..3 |-> NoHandler]
     \/ \E cfg \in EnvConfigs :
          /\ clients = <<NewClient(cfg)>>
          /\ server = ServerOf(1, FALSE, "pending")
          /\ tasks = [t \in 1..3 |->
               IF t = InitTask
                 THEN jmapRequest(NewClient(cfg),
                        [IdleTask EXCEPT !.op = "getMailboxes", !.cl = 1],
                        "mailboxes", MailboxGetCalls(NewClient(cfg)))
                 ELSE IdleTask]
          /\ handlers = [t \in 1..3 |->
               IF t = InitTask THEN HandlerOf("init", Undefined, "running", "none", <<>>)
               ELSE NoHandler]
  /\ srvEmails = {}
  /\ srvSubs = {}
  /\ srvMail = InitialMail

NextServer ==
  \/ \E t \in DOMAIN tasks : CallTool(t, ServerLabels)
  \/ \E t \in DOMAIN tasks : CallConnect(t)
  \/ \E t \in DOMAIN tasks : CallUnknown(t)
  \/ \E t \in DOMAIN tasks : Evaluate(t)
  \/ \E t \in DOMAIN tasks : Resume(t)
  \/ \E t \in DOMAIN tasks : Ack(t)
  \/ \E t \in DOMAIN tasks : Quiet /\ RecvAuth(t, {})
  \/ \E t \in DOMAIN tasks : Quiet /\ RecvSession(t, ServerDocs, {})
  \/ \E t \in DOMAIN tasks : Quiet /\ RecvPostFailure(t, FewFailures)
  \/ \E t \in DOMAIN tasks : Quiet /\ RecvMailboxes(t)
  \/ \E t \in DOMAIN tasks : Quiet /\ RecvFindMailboxes(t, ServerLists)
  \/ \E t \in DOMAIN tasks : Quiet /\ RecvQuery(t)

SpecServer == InitServer /\ [][NextServer]_vars

-----------------------------------------------------------------------------
(* Specification: the flag operations on one client; a second invocation
   repeats the first with the same arguments once the first has returned *)

Repeat(t) ==
  /\ t = 2
  /\ CanStart(t)
  /\ tasks[1].pc = "done"
  /\ tasks[1].op \in FlagOps
  /\ tasks' = [tasks EXCEPT ![t] =
       jmapRequest(clients[1], [Start(t, 1, tasks[1].op) EXCEPT !.emailIds = tasks[1].emailIds],
                   FlagTag(tasks[1].op), FlagCalls(clients[1], tasks[1].op, tasks[1].emailIds))]
  /\ UNCHANGED <<clients, srvEmails, srvSubs, srvMail, server, handlers>>

ReturnBoth ==
  /\ tasks[1].pc = "done"
  /\ tasks[2].pc \in {"idle", "done"}
  /\ tasks' = [t \in DOMAIN tasks |-> IdleTask]
  /\ UNCHANGED <<clients, srvEmails, srvSubs, srvMail, server, handlers>>

NextFlags ==
  \/ CallGetMailboxes(1, 1)
  \/ CallSetFlag(1, 1, FlagOps, IdLists)
  \/ \E t \in DOMAIN tasks : Repeat(t)
  \/ \E t \in DOMAIN tasks : RecvAuth(t, {})
  \/ \E t \in DOMAIN tasks : RecvSession(t, Docs, FewFailures)
  \/ \E t \in DOMAIN tasks : RecvPostFailure(t, FewFailures)
  \/ \E t \in DOMAIN tasks : RecvMailboxes(t)
  \/ \E t \in DOMAIN tasks : RecvSetFlags(t)
  \/ ReturnBoth

SpecFlags == InitOverlap /\ [][NextFlags]_vars

-----------------------------------------------------------------------------
(* Specification: sendEmail against every listing of DraftLists, on a fresh
   client and on one whose cache is loaded *)

DraftInputs ==
  { Email(<<Good>>, <<"Hi">>, <<"Hello">>, Undefined, NoList, NoList),
    Email(<<Good>>, <<>>, <<"Hello">>, Undefined, NoList, NoList) }

NextSend ==
  \/ \E t \in DOMAIN tasks : CallSendEmail(t, 1, DraftInputs)
  \/ \E t \in DOMAIN tasks : RecvAuth(t, {})
  \/ \E t \in DOMAIN tasks : RecvSession(t, ServerDocs, {})
  \/ \E t \in DOMAIN tasks : RecvPostFailure(t, FewFailures)
  \/ \E t \in DOMAIN tasks : RecvSendMailboxes(t, DraftLists)
  \/ \E t \in DOMAIN tasks : RecvCreateDraft(t)
  \/ \E t \in DOMAIN tasks : RecvSubmit(t)
  \/ \E t \in DOMAIN tasks : Return(t)

SpecSend == Init /\ [][NextSend]_vars

-----------------------------------------------------------------------------
(* Specification: every method that posts a batch of two calls, with the
   labels that tell the two tests for an identifier apart *)

BatchLabels ==
  { Undefined, <<>>, <<"m">>, <<"Z">>, <<"M", "1">>, <<"My ", "Draft", "s">>,
    <<"In", "box">>, <<"draft">>, <<"nope">> }

Queries == {<<"hello">>}

NextBatch ==
  \/ \E t \in DOMAIN tasks : CallGetMailboxes(t, 1)
  \/ \E t \in DOMAIN tasks : CallGetEmails(t, 1, BatchLabels)
  \/ \E t \in DOMAIN tasks : CallSearchEmails(t, 1, Queries, BatchLabels)
  \/ \E t \in DOMAIN tasks : CallGetCalendarEvents(t, 1)
  \/ \E t \in DOMAIN tasks : CallGetContacts(t, 1)
  \/ \E t \in DOMAIN tasks : CallSearchContacts(t, 1, Queries)
  \/ \E t \in DOMAIN tasks : RecvAuth(t, {})
  \/ \E t \in DOMAIN tasks : RecvSession(t, Docs, FewFailures)
  \/ \E t \in DOMAIN tasks : RecvPostFailure(t, FewFailures)
  \/ \E t \in DOMAIN tasks : RecvMailboxes(t)
  \/ \E t \in DOMAIN tasks : RecvFindMailboxes(t, MailboxLists)
  \/ \E t \in DOMAIN tasks : RecvSearchMailboxes(t, MailboxLists)
  \/ \E t \in DOMAIN tasks : RecvQuery(t)
  \/ \E t \in DOMAIN tasks : RecvSearch(t)
  \/ \E t \in DOMAIN tasks : RecvPair(t)
  \/ \E t \in DOMAIN tasks : Return(t)

SpecBatch == Init /\ [][NextBatch]_vars

-----------------------------------------------------------------------------
(* Specification: the operations that read the mailbox cache and the one that
   refreshes it, in any order on one client *)

CacheLabels == {Undefined, <<"m">>, <<"M", "1">>, <<"In", "box">>, <<"draft">>}

NextCache ==
  \/ \E t \in DOMAIN tasks : CallGetMailboxes(t, 1)
  \/ \E t \in DOMAIN tasks : CallGetEmails(t, 1, CacheLabels)
  \/ \E t \in DOMAIN tasks : CallSearchEmails(t, 1, Queries, CacheLabels)
  \/ \E t \in DOMAIN tasks : CallSendEmail(t, 1, DraftInputs)
  \/ \E t \in DOMAIN tasks : RecvAuth(t, {})
  \/ \E t \in DOMAIN tasks : RecvSession(t, ServerDocs, FewFailures)
  \/ \E t \in DOMAIN tasks : RecvPostFailure(t, FewFailures)
  \/ \E t \in DOMAIN tasks : RecvMailboxes(t)
  \/ \E t \in DOMAIN tasks : RecvFindMailboxes(t, MailboxLists)
  \/ \E t \in DOMAIN tasks : RecvSearchMailboxes(t, MailboxLists)
  \/ \E t \in DOMAIN tasks : RecvSendMailboxes(t, MailboxLists)
  \/ \E t \in DOMAIN tasks : RecvQuery(t)
  \/ \E t \in DOMAIN tasks : RecvSearch(t)
  \/ \E t \in DOMAIN tasks : RecvCreateDraft(t)
  \/ \E t \in DOMAIN tasks : RecvSubmit(t)
  \/ \E t \in DOMAIN tasks : Return(t)

SpecCache == Init /\ [][NextCache]_vars

=============================================================================
